---- MODULE Spec2Model ----
(***************************************************************************)
(* TokenGate: the Anthropic route of the gateway.                          *)
(*                                                                         *)
(*   - filterSseChunk   (src/src/routes/anthropic.ts:143-222), the SSE     *)
(*     chunk rewriter, driven the way the unit tests drive it: successive  *)
(*     calls that share one Set of suppressed block indices (SpecRewriter).*)
(*   - streamAnthropic  (src/src/routes/anthropic.ts:224-246), the         *)
(*     streaming request handler, two concurrent requests (Spec).          *)
(*   - filterEmptyTextBlocks (src/unnamed/part_000:36-55), the response    *)
(*     transform (SpecResponse).                                           *)
(*   - preprocessRequest (src/src/routes/anthropic.ts:26-66), the request  *)
(*     pipeline (SpecRequest).                                             *)
(*   - the non-streaming path of the POST /v1/messages handler             *)
(*     (src/src/routes/anthropic.ts:93-131) (SpecMessages).                *)
(*   - enrichSseChunk (src/tests/plugins/metrics.test.ts:279-379), the     *)
(*     rewriter with metadata backfill, next to filterSseChunk (SpecEnrich)*)
(*                                                                         *)
(* Strings are sequences of tokens: the newline character NL, and one      *)
(* token for the text of a non-empty line.  split('\n') and join('\n')     *)
(* are computed on these sequences.                                        *)
(***************************************************************************)
EXTENDS Integers, Sequences, FiniteSets, TLC

VARIABLES
    \* SpecRewriter: one stream of calls of filterSseChunk
    emptyBlocks,        \* the Set<number> shared by the calls of one stream
    rwPhase,            \* "idle" | "called"
    rwChunk,            \* argument of the last call
    rwResult,           \* string returned by the last call
    rwKept,             \* positions (in split order) of the lines of rwChunk that were output
    rwBefore,           \* contents of the Set when the last call started
    seenEmpty,          \* indices of the empty text blocks started in earlier chunks
    \* Spec: streamAnthropic, one instance per concurrent request
    pc,                 \* control point of each request
    emptyBlockIndices,  \* the Set<number> each request allocates
    chunk,              \* loop variable of for await
    produced,           \* chunks the backend generator has yielded so far
    written,            \* calls of reply.raw.write, in order
    failure,            \* value thrown by the backend generator, if any
    statusCode,         \* status passed to writeHead (0: no head written)
    ended,              \* number of calls of reply.raw.end
    hijacked,           \* reply.hijack was called
    connected,          \* the client socket is still open
    afterClose,         \* what was done after the client went away: "read", "write"
    \* SpecResponse: filterEmptyTextBlocks
    response,           \* argument
    returned,           \* return value (a one-element sequence once returned)
    respPhase,          \* "call" | "done"
    \* SpecRequest: preprocessRequest, applied once and then to its own result
    request,            \* the request body received
    normalized,         \* what normalizeToolIds returned for it
    result,             \* what preprocessRequest returned for it
    again,              \* what preprocessRequest returned for result
    reqPhase,           \* "call" | "once" | "twice"
    received,           \* copy of the request body taken before the first call
    \* SpecMessages: the handler of POST /v1/messages
    handlerPc,          \* "start" | "await" | "fulfilled" | "catch" | "streaming" | "done"
    backendCalls,       \* number of calls of callBackend
    backendOutcome,     \* how the awaited call settled
    replyCode,          \* argument of reply.code, if it was called
    replyBody,          \* value the handler returned
    bodyStream,         \* body.stream of the request
    streamCalls,        \* number of calls of streamBackend made by the handler
    \* SpecEnrich: enrichSseChunk and filterSseChunk on the same chunk
    enChunk,            \* the chunk
    calculatedInputTokens,  \* the precomputed count, if there is one
    enBefore,           \* contents of the Set when the calls started
    enriched,           \* result of enrichSseChunk
    filtered,           \* result of filterSseChunk
    enPhase,            \* "call" | "done"
    \* SpecBlocks: filterSseChunk on a stream of well-formed content blocks
    delivered,          \* block events the backend has sent, as <<index, type, n>>
    forwarded,          \* those of them the rewriter has output
    \* SpecAuth: getBackendAuth, called for two client Authorization values
    backendConfig,      \* the backend: url and apiKey
    clientAuths,        \* the two client values
    authResults,        \* what getBackendAuth returned for each
    \* SpecToolCalls: tool-call ID normalization and argument sanitization
    toolCalls,          \* the tool calls of a request
    idScheme,           \* the derivation the normalizer uses for an ID
    normalizedCalls,    \* the tool calls after normalization
    renormalizedCalls,  \* normalizedCalls after a second normalization
    toolPhase           \* "call" | "once" | "twice"

rwVars == <<emptyBlocks, rwPhase, rwChunk, rwResult, rwKept, rwBefore, seenEmpty>>
streamVars == <<pc, emptyBlockIndices, chunk, produced, written, failure, statusCode,
                ended, hijacked, connected, afterClose>>
respVars == <<response, returned, respPhase>>
reqVars == <<request, normalized, result, again, reqPhase, received>>
routeVars == <<handlerPc, backendCalls, backendOutcome, replyCode, replyBody, bodyStream,
              streamCalls>>
enVars == <<enChunk, calculatedInputTokens, enBefore, enriched, filtered, enPhase>>
blkVars == <<delivered, forwarded>>
authVars == <<backendConfig, clientAuths, authResults>>
toolVars == <<toolCalls, idScheme, normalizedCalls, renormalizedCalls, toolPhase>>
vars == <<rwVars, streamVars, respVars, reqVars, routeVars, enVars, blkVars, authVars,
          toolVars>>

-----------------------------------------------------------------------------
(* Bounds *)

MaxIndex == 1
MaxLines == 2
MaxChunks == 2
MaxBlocks == 3
MaxMessages == 2
MaxMsgBlocks == 1

-----------------------------------------------------------------------------
(* Strings, lines and JSON values *)

BlockIndices == 0 .. MaxIndex

\* The newline character.
NL == [kind |-> "nl"]

\* "event: <name>"
EventLine(name) == [kind |-> "event", name |-> name]

\* "data: <payload>"
DataLine(payload) == [kind |-> "data", payload |-> payload]

\* A line that starts with neither "event: " nor "data: " and is not empty.
CommentLine == [kind |-> "other", text |-> ": ping"]

\* The payload "[DONE]".
DONE == [form |-> "done"]

\* A payload that JSON.parse rejects.
InvalidJson == [form |-> "text", text |-> "invalid json here"]

\* JSON.stringify(value): the text of a JSON value.
JSONstringify(value) == [form |-> "json", value |-> value]

\* JSON.parse(text): ok is FALSE where JSON.parse throws.
JSONparse(text) ==
    IF text.form = "json" THEN [ok |-> TRUE, data |-> text.value] ELSE [ok |-> FALSE]

\* data.f !== undefined
Has(data, f) == f \in DOMAIN data

TextBlockStart(i, text) ==
    [type |-> "content_block_start", index |-> i,
     content_block |-> [type |-> "text", text |-> text]]

ToolUseBlockStart(i) ==
    [type |-> "content_block_start", index |-> i,
     content_block |-> [type |-> "tool_use", id |-> "tool_123", name |-> "bash"]]

BlockDelta(i) == [type |-> "content_block_delta", index |-> i]

BlockStop(i) == [type |-> "content_block_stop", index |-> i]

MessageStop == [type |-> "message_stop"]

\* The JSON events the backend sends.
JsonEvents ==
    {MessageStop}
    \cup {TextBlockStart(i, "") : i \in BlockIndices}
    \cup {TextBlockStart(i, "Hello") : i \in BlockIndices}
    \cup {ToolUseBlockStart(i) : i \in BlockIndices}
    \cup {BlockDelta(i) : i \in BlockIndices}
    \cup {BlockStop(i) : i \in BlockIndices}

EventNames == {"content_block_start", "content_block_delta"}

\* The lines a chunk is made of: a line is the empty string or one token.
Lines ==
    {<< >>, <<CommentLine>>, <<DataLine(DONE)>>, <<DataLine(InvalidJson)>>}
    \cup {<<EventLine(n)>> : n \in EventNames}
    \cup {<<DataLine(JSONstringify(e))>> : e \in JsonEvents}

\* lines.join('\n')
RECURSIVE Join(_)
Join(lines) ==
    IF Len(lines) = 0 THEN << >>
    ELSE IF Len(lines) = 1 THEN lines[1]
    ELSE lines[1] \o <<NL>> \o Join(Tail(lines))

\* chunk.split('\n')
RECURSIVE SplitFrom(_, _, _, _)
SplitFrom(str, i, cur, acc) ==
    IF i > Len(str) THEN Append(acc, cur)
    ELSE IF str[i] = NL THEN SplitFrom(str, i + 1, << >>, Append(acc, cur))
    ELSE SplitFrom(str, i + 1, Append(cur, str[i]), acc)

Split(str) == SplitFrom(str, 1, << >>, << >>)

\* The chunks a backend can deliver: every string of 1 .. MaxLines lines.
Chunks == {Join(ls) : ls \in UNION {[1 .. n -> Lines] : n \in 1 .. MaxLines}}

\* line.startsWith('event: ')
StartsWithEvent(line) == Len(line) > 0 /\ line[1].kind = "event"

\* line.startsWith('data: ')
StartsWithData(line) == Len(line) > 0 /\ line[1].kind = "data"

\* line.slice(6) of a data: line
Slice6(line) == line[1].payload

-----------------------------------------------------------------------------
(* filterSseChunk *)

\* if (pendingEventLine) { outputLines.push(pendingEventLine); pendingEventLine = null }
FlushPending(st) ==
    [st EXCEPT !.outputLines = @ \o st.pendingEventLine,
               !.kept = @ \o st.pendingPos,
               !.pendingEventLine = << >>,
               !.pendingPos = << >>]

\* outputLines.push(line), after the pending event line if one is held
Keep(st, line, i) ==
    LET f == FlushPending(st) IN
    [f EXCEPT !.outputLines = Append(@, line), !.kept = Append(@, i)]

\* Faulty variant of Skip: the data: line is dropped and its event: line stays pending.
SkipDataLineOnly(st) == st

\* pendingEventLine = null; continue
Skip(st) == [st EXCEPT !.pendingEventLine = << >>, !.pendingPos = << >>]

\* data.type === 'content_block_start' && data.content_block?.type === 'text'
\*   && data.content_block.text === ''
IsEmptyTextStart(data) ==
    /\ Has(data, "type") /\ data.type = "content_block_start"
    /\ Has(data, "content_block")
    /\ Has(data.content_block, "type") /\ data.content_block.type = "text"
    /\ Has(data.content_block, "text") /\ data.content_block.text = ""

\* Faulty variant of IsTrackedDeltaOrStop: content_block_stop is not matched.
IsTrackedDeltaOnly(data, indices) ==
    /\ Has(data, "index") /\ data.index \in indices
    /\ Has(data, "type")
    /\ data.type = "content_block_delta"

\* data.index !== undefined && emptyBlockIndices.has(data.index)
\*   && (data.type === 'content_block_delta' || data.type === 'content_block_stop')
IsTrackedDeltaOrStop(data, indices) ==
    /\ Has(data, "index") /\ data.index \in indices
    /\ Has(data, "type")
    /\ data.type \in {"content_block_delta", "content_block_stop"}

\* Faulty variant of FilterParsed: the start of an empty text block is skipped
\* and its index is not added to the Set.
FilterParsedNoTrack(st, line, i, data) ==
    IF IsEmptyTextStart(data) THEN Skip(st)
    ELSE IF IsTrackedDeltaOrStop(data, st.emptyBlockIndices) THEN Skip(st)
    ELSE Keep(st, line, i)

\* Faulty variant of FilterParsed: the index of a block is deleted from the Set
\* when its content_block_stop has been suppressed.
FilterParsedForgetOnStop(st, line, i, data) ==
    IF IsEmptyTextStart(data)
    THEN [Skip(st) EXCEPT !.emptyBlockIndices =
              IF Has(data, "index") THEN @ \cup {data.index} ELSE @]
    ELSE IF IsTrackedDeltaOrStop(data, st.emptyBlockIndices)
    THEN [Skip(st) EXCEPT !.emptyBlockIndices =
              IF data.type = "content_block_stop" THEN @ \ {data.index} ELSE @]
    ELSE Keep(st, line, i)

\* The try block, for a payload that parsed.  emptyBlockIndices.add(undefined)
\* adds a member that has() is never asked about: the Set of numbers is unchanged.
FilterParsed(st, line, i, data) ==
    IF IsEmptyTextStart(data)
    THEN [Skip(st) EXCEPT !.emptyBlockIndices =
              IF Has(data, "index") THEN @ \cup {data.index} ELSE @]
    ELSE IF IsTrackedDeltaOrStop(data, st.emptyBlockIndices) THEN Skip(st)
    ELSE Keep(st, line, i)

\* Faulty variant of FilterLine: a data: line whose payload does not parse is
\* dropped together with its event: line.
FilterLineDropUnparsed(st, line, i) ==
    IF StartsWithEvent(line)
    THEN [st EXCEPT !.pendingEventLine = <<line>>, !.pendingPos = <<i>>]
    ELSE IF ~StartsWithData(line) THEN Keep(st, line, i)
    ELSE IF Slice6(line) = DONE THEN Keep(st, line, i)
    ELSE LET parsed == JSONparse(Slice6(line)) IN
         IF parsed.ok THEN FilterParsed(st, line, i, parsed.data)
         ELSE Skip(st)

\* One iteration of  for (const line of lines)
FilterLine(st, line, i) ==
    IF StartsWithEvent(line)
    THEN [st EXCEPT !.pendingEventLine = <<line>>, !.pendingPos = <<i>>]
    ELSE IF ~StartsWithData(line) THEN Keep(st, line, i)
    ELSE IF Slice6(line) = DONE THEN Keep(st, line, i)
    ELSE LET parsed == JSONparse(Slice6(line)) IN
         IF parsed.ok THEN FilterParsed(st, line, i, parsed.data)
         ELSE Keep(st, line, i)

RECURSIVE FilterLoop(_, _, _)
FilterLoop(st, lines, i) ==
    IF i > Len(lines) THEN st
    ELSE FilterLoop(FilterLine(st, lines[i], i), lines, i + 1)

\* filterSseChunk(chunk, emptyBlockIndices): the string returned (out), the Set
\* after the call, and the positions of the lines that were output (kept).
filterSseChunk(str, indices) ==
    LET lines == Split(str)
        st0 == [outputLines |-> << >>, kept |-> << >>,
                pendingEventLine |-> << >>, pendingPos |-> << >>,
                emptyBlockIndices |-> indices]
        st == FlushPending(FilterLoop(st0, lines, 1))
    IN [out |-> Join(st.outputLines),
        emptyBlockIndices |-> st.emptyBlockIndices,
        kept |-> st.kept]

-----------------------------------------------------------------------------
(* SpecRewriter: the calls of one stream share one Set *)

\* The data of line p of lines, when it is a data: line holding a JSON object.
IsJsonAt(lines, p) ==
    /\ StartsWithData(lines[p])
    /\ JSONparse(Slice6(lines[p])).ok

JsonAt(lines, p) == JSONparse(Slice6(lines[p])).data

IsStartAt(lines, p) ==
    IsJsonAt(lines, p) /\ JsonAt(lines, p).type = "content_block_start"

\* Indices of the content_block_start events of lines that open an empty text block.
EmptyStartsIn(lines) ==
    {JsonAt(lines, p).index : p \in {q \in 1 .. Len(lines) :
        /\ IsStartAt(lines, q)
        /\ JsonAt(lines, q).content_block = [type |-> "text", text |-> ""]}}

RwInit ==
    /\ emptyBlocks = {}
    /\ rwPhase = "idle"
    /\ rwChunk = << >>
    /\ rwResult = << >>
    /\ rwKept = << >>
    /\ rwBefore = {}
    /\ seenEmpty = {}

\* const result = filterSseChunk(chunk, emptyBlocks)
Rewrite ==
    /\ rwPhase = "idle"
    /\ \E c \in Chunks :
         LET r == filterSseChunk(c, emptyBlocks) IN
         /\ rwChunk' = c
         /\ rwResult' = r.out
         /\ rwKept' = r.kept
         /\ emptyBlocks' = r.emptyBlockIndices
    /\ rwBefore' = emptyBlocks
    /\ seenEmpty' = seenEmpty
    /\ rwPhase' = "called"

\* The next chunk of the same stream arrives.
NextChunk ==
    /\ rwPhase = "called"
    /\ rwPhase' = "idle"
    /\ rwChunk' = << >>
    /\ rwResult' = << >>
    /\ rwKept' = << >>
    /\ rwBefore' = emptyBlocks
    /\ seenEmpty' = seenEmpty \cup EmptyStartsIn(Split(rwChunk))
    /\ UNCHANGED emptyBlocks

-----------------------------------------------------------------------------
(* Idle values of the variables a specification does not use *)

StreamIdle ==
    /\ pc = << >> /\ emptyBlockIndices = << >> /\ chunk = << >> /\ produced = << >>
    /\ written = << >> /\ failure = << >> /\ statusCode = << >> /\ ended = << >>
    /\ hijacked = << >> /\ connected = << >> /\ afterClose = << >>

RespIdle == response = << >> /\ returned = << >> /\ respPhase = "unused"

RwIdle ==
    /\ emptyBlocks = {} /\ rwPhase = "unused" /\ rwChunk = << >> /\ rwResult = << >>
    /\ rwKept = << >> /\ rwBefore = {} /\ seenEmpty = {}

ReqIdle ==
    /\ request = << >> /\ normalized = << >> /\ result = << >> /\ again = << >>
    /\ reqPhase = "unused" /\ received = << >>

RouteIdle ==
    /\ handlerPc = "unused" /\ backendCalls = 0 /\ backendOutcome = << >>
    /\ replyCode = << >> /\ replyBody = << >> /\ bodyStream = FALSE /\ streamCalls = 0

BlkIdle == delivered = {} /\ forwarded = {}

AuthIdle == backendConfig = << >> /\ clientAuths = << >> /\ authResults = << >>

ToolIdle ==
    /\ toolCalls = << >> /\ idScheme = << >> /\ normalizedCalls = << >>
    /\ renormalizedCalls = << >> /\ toolPhase = "unused"

EnIdle ==
    /\ enChunk = << >> /\ calculatedInputTokens = << >> /\ enBefore = {}
    /\ enriched = << >> /\ filtered = << >> /\ enPhase = "unused"

InitRewriter == RwInit /\ StreamIdle /\ RespIdle /\ ReqIdle /\ RouteIdle /\ EnIdle /\ BlkIdle
    /\ AuthIdle /\ ToolIdle

NextRewriter ==
    \/ Rewrite
       /\ UNCHANGED <<streamVars, respVars, reqVars, routeVars, enVars, blkVars, authVars, toolVars>>
    \/ NextChunk
       /\ UNCHANGED <<streamVars, respVars, reqVars, routeVars, enVars, blkVars, authVars, toolVars>>

SpecRewriter == InitRewriter /\ [][NextRewriter]_vars

-----------------------------------------------------------------------------
(* Properties of filterSseChunk, under SpecRewriter *)

RwLines == Split(rwChunk)
RwOutLines == Split(rwResult)
RwKeptSet == {rwKept[j] : j \in 1 .. Len(rwKept)}

IsDeltaOrStopAt(lines, p) ==
    /\ IsJsonAt(lines, p)
    /\ JsonAt(lines, p).type \in {"content_block_delta", "content_block_stop"}

IsToolUseStartAt(lines, p) ==
    /\ IsStartAt(lines, p)
    /\ JsonAt(lines, p).content_block.type = "tool_use"

\* Line p and, when the line before it is an event: line, that line too.
WithEventLine(lines, p) ==
    IF p > 1 /\ StartsWithEvent(lines[p - 1]) THEN {p - 1, p} ELSE {p}

\* The chunk "event: <name>\ndata: <json>"
EventChunk(name, json) ==
    Join(<< <<EventLine(name)>>, <<DataLine(JSONstringify(json))>> >>)

\* C1: the output of the rewriter contains no event: line that is not
\* immediately followed by a data: line, for every chunk and every Set.
C1_NoOrphanEventLine ==
    rwPhase = "called" =>
        \A p \in 1 .. Len(RwOutLines) :
            StartsWithEvent(RwOutLines[p]) =>
                p < Len(RwOutLines) /\ StartsWithData(RwOutLines[p + 1])

C3_EmptyTextStart ==
    rwPhase = "called" =>
        \A k \in BlockIndices : \A n \in EventNames :
            /\ rwChunk = EventChunk(n, TextBlockStart(k, ""))
                 => rwResult = << >> /\ k \in emptyBlocks
            /\ rwChunk = EventChunk(n, TextBlockStart(k, "Hello"))
                 => rwResult = rwChunk /\ emptyBlocks = rwBefore

\* C3 witness: the empty text block start of index 0 was rewritten to "".
C3_Witness ==
    /\ rwPhase = "called"
    /\ rwChunk = EventChunk("content_block_start", TextBlockStart(0, ""))
    /\ rwResult = << >>
    /\ rwBefore = {}
    /\ emptyBlocks = {0}

\* C4: no event of a tool_use block is suppressed, whatever the Set holds: the
\* content_block_start of a tool_use block and the delta and stop events that
\* follow it at the same index are output with their event: lines, and the
\* start adds nothing to the Set.
C4_ToolUseNeverSuppressed ==
    rwPhase = "called" =>
        \A p \in 1 .. Len(RwLines) :
            IsToolUseStartAt(RwLines, p) =>
                /\ WithEventLine(RwLines, p) \subseteq RwKeptSet
                /\ emptyBlocks \subseteq rwBefore \cup EmptyStartsIn(RwLines)
                /\ \A q \in p + 1 .. Len(RwLines) :
                     ( /\ IsDeltaOrStopAt(RwLines, q)
                       /\ JsonAt(RwLines, q).index = JsonAt(RwLines, p).index
                       /\ \A m \in p + 1 .. q - 1 :
                            ~(IsStartAt(RwLines, m)
                              /\ JsonAt(RwLines, m).index = JsonAt(RwLines, p).index) )
                     => WithEventLine(RwLines, q) \subseteq RwKeptSet

\* Line p of the chunk is one the rewriter does not interpret: a data: line
\* whose payload is not valid JSON ("[DONE]" included), or a line that starts
\* with neither "event: " nor "data: " (the empty line included).
IsPassThroughAt(lines, p) ==
    /\ ~StartsWithEvent(lines[p])
    /\ StartsWithData(lines[p]) => ~JSONparse(Slice6(lines[p])).ok

\* C15: every data: line whose payload is not valid JSON, and every line that
\* is neither an event: nor a data: line, is output unchanged, directly after
\* the event: line that precedes it in the chunk if there is one; a chunk
\* that holds no data: line with a JSON payload leaves the Set unchanged.
C15_UnparsedPassThrough ==
    rwPhase = "called" =>
        /\ \A p \in 1 .. Len(RwLines) :
              IsPassThroughAt(RwLines, p) =>
                  \E j \in 1 .. Len(rwKept) :
                      /\ rwKept[j] = p
                      /\ j <= Len(RwOutLines) /\ RwOutLines[j] = RwLines[p]
                      /\ (p > 1 /\ StartsWithEvent(RwLines[p - 1])) =>
                            /\ j > 1 /\ rwKept[j - 1] = p - 1
                            /\ RwOutLines[j - 1] = RwLines[p - 1]
        /\ (\A p \in 1 .. Len(RwLines) : ~IsJsonAt(RwLines, p)) =>
              emptyBlocks = rwBefore

\* C15 witness: with a suppressed index in the Set, an event: line followed by
\* a data: line that is not JSON came out as it went in.
C15_Witness ==
    /\ rwPhase = "called"
    /\ rwBefore = {0}
    /\ rwChunk = Join(<< <<EventLine("content_block_delta")>>,
                         <<DataLine(InvalidJson)>> >>)
    /\ rwResult = rwChunk
    /\ emptyBlocks = {0}

\* Line p of the chunk is an event the rewriter suppresses or rewrites: the
\* start of an empty text block, a delta or stop of a suppressed index, a
\* message_start, or a message_delta with usage.
IsRewrittenAt(lines, p, indices) ==
    /\ IsJsonAt(lines, p)
    /\ \/ IsEmptyTextStart(JsonAt(lines, p))
       \/ IsTrackedDeltaOrStop(JsonAt(lines, p), indices)
       \/ JsonAt(lines, p).type = "message_start"
       \/ JsonAt(lines, p).type = "message_delta" /\ Has(JsonAt(lines, p), "usage")

\* C20: the output for a chunk that holds no suppressed or rewritten event is
\* the chunk itself, character for character, whatever its arrangement of
\* lines.
C20_UntouchedChunkIdentical ==
    (/\ rwPhase = "called"
     /\ \A p \in 1 .. Len(RwLines) : ~IsRewrittenAt(RwLines, p, rwBefore))
    => rwResult = rwChunk

-----------------------------------------------------------------------------
(* streamAnthropic: one instance per streaming request *)

Streams == {"A", "B"}

\* The chunk "event: <name>\ndata: <json>\n\n"
Frame(name, json) ==
    <<EventLine(name), NL, DataLine(JSONstringify(json)), NL, NL>>

\* What streamBackend yields: the frames of an empty text block.
BackendChunks ==
    {Frame("content_block_start", TextBlockStart(0, "")),
     Frame("content_block_delta", BlockDelta(0))}

\* What streamBackend throws: an Error with a message, or a value that is no Error.
Failures == {[isError |-> TRUE, message |-> "Stream error"], [isError |-> FALSE]}

\* Faulty variant of formatSseError: the frame is not terminated by a blank line.
formatSseErrorUnterminated(error) ==
    LET message == IF error.isError THEN error.message ELSE "Unknown error" IN
    <<DataLine(JSONstringify(
        [type |-> "error", error |-> [type |-> "api_error", message |-> message]]))>>

\* formatSseError(error), with type = 'error'
formatSseError(error) ==
    LET message == IF error.isError THEN error.message ELSE "Unknown error" IN
    <<DataLine(JSONstringify(
        [type |-> "error", error |-> [type |-> "api_error", message |-> message]])),
      NL, NL>>

\* reply.raw.writeHead(200, SSE_HEADERS)
StatusOK == 200

\* The body of  for await (const chunk of stream): what is written for a chunk
\* and the Set afterwards.  The call of filterSseChunk is disabled in the source.
LoopBody(c, indices) == [out |-> c, emptyBlockIndices |-> indices]

\* Faulty variant of ClientWrite: the filter is on and its Set is one module-level
\* Set that every request adds to.
ClientWriteSharedSet(s) ==
    filterSseChunk(chunk[s],
        UNION {EmptyStartsIn(Split(produced[t][i])) :
                 <<t, i>> \in {<<u, j>> \in Streams \X (1 .. MaxChunks + 1) :
                                  j <= Len(produced[u]) /\ ~(u = s /\ j = Len(produced[u]))}}).out

\* The argument of reply.raw.write in the loop.
ClientWrite(s) == LoopBody(chunk[s], emptyBlockIndices[s]).out

\* Faulty variant of CanPull: the next chunk is pulled while the body still holds one.
CanPullEarly(s) == pc[s] \in {"next", "body"}

\* for await pulls the next chunk only when the body has run.
CanPull(s) == pc[s] = "next"

StreamInit ==
    /\ pc = [s \in Streams |-> "idle"]
    /\ emptyBlockIndices = [s \in Streams |-> {}]
    /\ chunk = [s \in Streams |-> << >>]
    /\ produced = [s \in Streams |-> << >>]
    /\ written = [s \in Streams |-> << >>]
    /\ failure = [s \in Streams |-> << >>]
    /\ statusCode = [s \in Streams |-> 0]
    /\ ended = [s \in Streams |-> 0]
    /\ hijacked = [s \in Streams |-> FALSE]
    /\ connected = [s \in Streams |-> TRUE]
    /\ afterClose = [s \in Streams |-> {}]

\* reply.raw.writeHead(200, SSE_HEADERS); const emptyBlockIndices = new Set()
StartStream(s) ==
    /\ pc[s] = "idle"
    /\ statusCode' = [statusCode EXCEPT ![s] = StatusOK]
    /\ emptyBlockIndices' = [emptyBlockIndices EXCEPT ![s] = {}]
    /\ pc' = [pc EXCEPT ![s] = "next"]
    /\ UNCHANGED <<chunk, produced, written, failure, ended, hijacked, connected,
                   afterClose>>

\* The backend generator yields the next chunk.
BackendYield(s) ==
    /\ CanPull(s)
    /\ Len(produced[s]) < MaxChunks
    /\ \E c \in BackendChunks :
         /\ chunk' = [chunk EXCEPT ![s] = c]
         /\ produced' = [produced EXCEPT ![s] = Append(@, c)]
    /\ afterClose' =
         [afterClose EXCEPT ![s] = IF connected[s] THEN @ ELSE @ \cup {"read"}]
    /\ pc' = [pc EXCEPT ![s] = "body"]
    /\ UNCHANGED <<emptyBlockIndices, written, failure, statusCode, ended, hijacked,
                   connected>>

\* reply.raw.write(chunk)
WriteChunk(s) ==
    /\ pc[s] = "body"
    /\ written' = [written EXCEPT ![s] =
         Append(@, [data |-> ClientWrite(s), from |-> Len(produced[s])])]
    /\ afterClose' =
         [afterClose EXCEPT ![s] = IF connected[s] THEN @ ELSE @ \cup {"write"}]
    /\ emptyBlockIndices' = [emptyBlockIndices EXCEPT ![s] =
         LoopBody(chunk[s], @).emptyBlockIndices]
    /\ pc' = [pc EXCEPT ![s] = "next"]
    /\ UNCHANGED <<chunk, produced, failure, statusCode, ended, hijacked, connected>>

\* The backend generator returns: the loop ends.
BackendClose(s) ==
    /\ pc[s] = "next"
    /\ pc' = [pc EXCEPT ![s] = "end"]
    /\ UNCHANGED <<emptyBlockIndices, chunk, produced, written, failure, statusCode,
                   ended, hijacked, connected, afterClose>>

\* The backend generator throws inside try: control goes to catch (e).
BackendThrow(s) ==
    /\ pc[s] = "next"
    /\ \E e \in Failures : failure' = [failure EXCEPT ![s] = <<e>>]
    /\ pc' = [pc EXCEPT ![s] = "catch"]
    /\ UNCHANGED <<emptyBlockIndices, chunk, produced, written, statusCode, ended,
                   hijacked, connected, afterClose>>

\* catch (e) { reply.raw.write(formatSseError(e)) }
WriteError(s) ==
    /\ pc[s] = "catch"
    /\ written' = [written EXCEPT ![s] =
         Append(@, [data |-> formatSseError(failure[s][1]), from |-> 0])]
    /\ afterClose' =
         [afterClose EXCEPT ![s] = IF connected[s] THEN @ ELSE @ \cup {"write"}]
    /\ pc' = [pc EXCEPT ![s] = "end"]
    /\ UNCHANGED <<emptyBlockIndices, chunk, produced, failure, statusCode, ended,
                   hijacked, connected>>

\* Faulty variant of EndReply: reply.raw.end() is called a second time.
EndReplyTwice(s) ==
    /\ pc[s] = "end"
    /\ ended' = [ended EXCEPT ![s] = @ + 2]
    /\ hijacked' = [hijacked EXCEPT ![s] = TRUE]
    /\ pc' = [pc EXCEPT ![s] = "done"]
    /\ UNCHANGED <<emptyBlockIndices, chunk, produced, written, failure, statusCode,
                   connected, afterClose>>

\* reply.raw.end(); reply.hijack()
EndReply(s) ==
    /\ pc[s] = "end"
    /\ ended' = [ended EXCEPT ![s] = @ + 1]
    /\ hijacked' = [hijacked EXCEPT ![s] = TRUE]
    /\ pc' = [pc EXCEPT ![s] = "done"]
    /\ UNCHANGED <<emptyBlockIndices, chunk, produced, written, failure, statusCode,
                   connected, afterClose>>

\* The client closes its connection while the stream is in progress.  The
\* handler registers no listener for it.
ClientDisconnect(s) ==
    /\ pc[s] \in {"next", "body", "catch"}
    /\ connected[s]
    /\ connected' = [connected EXCEPT ![s] = FALSE]
    /\ UNCHANGED <<pc, emptyBlockIndices, chunk, produced, written, failure,
                   statusCode, ended, hijacked, afterClose>>

Init == StreamInit /\ RwIdle /\ RespIdle /\ ReqIdle /\ RouteIdle /\ EnIdle /\ BlkIdle
    /\ AuthIdle /\ ToolIdle

Next ==
    \/ \E s \in Streams : StartStream(s)
       /\ UNCHANGED <<rwVars, respVars, reqVars, routeVars, enVars, blkVars, authVars, toolVars>>
    \/ \E s \in Streams : BackendYield(s)
       /\ UNCHANGED <<rwVars, respVars, reqVars, routeVars, enVars, blkVars, authVars, toolVars>>
    \/ \E s \in Streams : WriteChunk(s)
       /\ UNCHANGED <<rwVars, respVars, reqVars, routeVars, enVars, blkVars, authVars, toolVars>>
    \/ \E s \in Streams : BackendClose(s)
       /\ UNCHANGED <<rwVars, respVars, reqVars, routeVars, enVars, blkVars, authVars, toolVars>>
    \/ \E s \in Streams : BackendThrow(s)
       /\ UNCHANGED <<rwVars, respVars, reqVars, routeVars, enVars, blkVars, authVars, toolVars>>
    \/ \E s \in Streams : WriteError(s)
       /\ UNCHANGED <<rwVars, respVars, reqVars, routeVars, enVars, blkVars, authVars, toolVars>>
    \/ \E s \in Streams : EndReply(s)
       /\ UNCHANGED <<rwVars, respVars, reqVars, routeVars, enVars, blkVars, authVars, toolVars>>
    \/ \E s \in Streams : ClientDisconnect(s)
       /\ UNCHANGED <<rwVars, respVars, reqVars, routeVars, enVars, blkVars, authVars, toolVars>>

Spec == Init /\ [][Next]_vars

-----------------------------------------------------------------------------
(* Properties of streamAnthropic, under Spec *)

\* The writes of the loop (from > 0), in order.
LoopWrites(s) == SelectSeq(written[s], LAMBDA w : w.from > 0)

\* What the rewriter returns for each chunk of a stream, from an empty Set.
RECURSIVE RewriterOutputs(_, _)
RewriterOutputs(chunks, indices) ==
    IF chunks = << >> THEN << >>
    ELSE LET r == filterSseChunk(Head(chunks), indices) IN
         <<r.out>> \o RewriterOutputs(Tail(chunks), r.emptyBlockIndices)

\* What a request running alone writes for each chunk of its backend.
RECURSIVE AloneOutputs(_, _)
AloneOutputs(chunks, indices) ==
    IF chunks = << >> THEN << >>
    ELSE LET r == LoopBody(Head(chunks), indices) IN
         <<r.out>> \o AloneOutputs(Tail(chunks), r.emptyBlockIndices)

\* Indices of the empty text blocks started in the chunks of a sequence.
RECURSIVE EmptyStartsOf(_)
EmptyStartsOf(chunks) ==
    IF chunks = << >> THEN {}
    ELSE EmptyStartsIn(Split(Head(chunks))) \cup EmptyStartsOf(Tail(chunks))

\* str is "data: {"type":"error","error":{"type":"api_error","message":...}}\n\n"
IsErrorFrame(str) ==
    /\ Len(str) = 3 /\ str[2] = NL /\ str[3] = NL
    /\ IsJsonAt(<< <<str[1]>> >>, 1)
    /\ LET data == JsonAt(<< <<str[1]>> >>, 1) IN
         /\ DOMAIN data = {"type", "error"}
         /\ data.type = "error"
         /\ DOMAIN data.error = {"type", "message"}
         /\ data.error.type = "api_error"

\* C5: what is written to the client for a chunk is the rewriter's output for
\* that chunk, computed with the stream's own Set, never the raw chunk.
C5_ClientReceivesRewriterOutput ==
    \A s \in Streams : \A i \in 1 .. Len(written[s]) :
        written[s][i].from > 0 =>
            written[s][i].data =
                RewriterOutputs(produced[s], {})[written[s][i].from]

\* C6: the writes of a request follow the order of the backend's chunks: the
\* i-th write of the loop is the write for chunk i, no chunk is written twice,
\* and chunk i+1 is pulled only after chunk i was handed to the transport.
C6_WritesInBackendOrder ==
    \A s \in Streams :
        LET w == LoopWrites(s) IN
        /\ \A i \in 1 .. Len(w) : w[i].from = i
        /\ Len(produced[s]) = Len(w) + (IF pc[s] = "body" THEN 1 ELSE 0)

\* C6 witness: two chunks were written, in order.
C6_Witness ==
    \E s \in Streams :
        /\ Len(produced[s]) = 2
        /\ produced[s][1] # produced[s][2]
        /\ Len(LoopWrites(s)) = 2

\* C7: when the backend fails after n chunks, the client gets the writes of
\* those n chunks, then one error frame ended by a blank line, then the end of
\* the response; the error frame is the last write, the failure is caught,
\* and the status is 200.
C7_ErrorFrameThenEnd ==
    \A s \in Streams :
        /\ \A i \in 1 .. Len(written[s]) :
               written[s][i].from = 0 => i = Len(written[s]) /\ failure[s] # << >>
        /\ failure[s] # << >> => pc[s] \in {"catch", "end", "done"}
        /\ (failure[s] # << >> /\ pc[s] = "done") =>
               /\ Len(written[s]) = Len(produced[s]) + 1
               /\ \A i \in 1 .. Len(produced[s]) : written[s][i].from = i
               /\ written[s][Len(written[s])].from = 0
               /\ IsErrorFrame(written[s][Len(written[s])].data)
               /\ written[s][Len(written[s])].data[1].payload.value.error.message =
                      (IF failure[s][1].isError THEN failure[s][1].message
                       ELSE "Unknown error")
               /\ ended[s] = 1
               /\ statusCode[s] = 200

\* C7 witness: the backend failed after one chunk and the response was ended.
C7_Witness ==
    \E s \in Streams :
        /\ failure[s] # << >> /\ failure[s][1].isError
        /\ pc[s] = "done"
        /\ Len(produced[s]) = 1
        /\ Len(written[s]) = 2

\* C8: after the client disconnects, no chunk is pulled from the backend and
\* nothing is written to the client.
C8_NothingAfterDisconnect ==
    \A s \in Streams : afterClose[s] = {}

\* C9: each request has its own Set, empty when the stream starts and holding
\* only indices flagged by its own chunks; what a request writes for its
\* chunks is what it writes when it runs alone, and two requests whose
\* backends sent the same chunks wrote the same, whatever the interleaving.
C9_StreamsIsolated ==
    \A s \in Streams :
        /\ pc[s] = "idle" => emptyBlockIndices[s] = {}
        /\ emptyBlockIndices[s] \subseteq EmptyStartsOf(produced[s])
        /\ LET w == LoopWrites(s)
               alone == AloneOutputs(produced[s], {})
           IN \A i \in 1 .. Len(w) :
               /\ w[i].data = alone[i]
               /\ \A t \in Streams \ {s} :
                      ( /\ i <= Len(LoopWrites(t))
                        /\ SubSeq(produced[s], 1, i) = SubSeq(produced[t], 1, i) )
                      => w[i].data = LoopWrites(t)[i].data

\* C9 witness: A's backend started an empty text block at index 0 and B, in
\* progress at the same time, wrote the delta of index 0 of its own stream.
C9_Witness ==
    /\ pc["A"] = "next" /\ pc["B"] = "next"
    /\ Len(produced["A"]) = 1 /\ Len(LoopWrites("A")) = 1
    /\ 0 \in EmptyStartsIn(Split(produced["A"][1]))
    /\ Len(LoopWrites("B")) = 1
    /\ LoopWrites("B")[1].data = Frame("content_block_delta", BlockDelta(0))

-----------------------------------------------------------------------------
(* filterEmptyTextBlocks *)

TextBlock(text) == [type |-> "text", text |-> text]

ToolUseBlock == [type |-> "tool_use", id |-> "t1", name |-> "bash"]

\* A block of a type the gateway does not know.
OtherBlock == [type |-> "thinking"]

ContentBlocks == {TextBlock(""), TextBlock("Hello"), ToolUseBlock, OtherBlock}

\* A response whose content is an array, a response without content, and a
\* response whose content is not an array.
Responses ==
    {[id |-> "msg_1", content |-> [isArray |-> TRUE, items |-> items]] :
        items \in UNION {[1 .. n -> ContentBlocks] : n \in 0 .. MaxBlocks}}
    \cup {[id |-> "msg_1"],
          [id |-> "msg_1", content |-> [isArray |-> FALSE, text |-> "Hello"]]}

\* Faulty variant of KeepBlock: every text block is dropped, whatever its text.
KeepNonTextBlock(block) == block.type # "text"

\* The callback of response.content.filter
KeepBlock(block) ==
    IF block.type # "text" THEN TRUE ELSE block.text # ""

\* Faulty variant of filterEmptyTextBlocks: the filtered list is returned also when
\* it is empty.
filterEmptyTextBlocksAlways(resp) ==
    IF ~Has(resp, "content") \/ ~resp.content.isArray THEN resp
    ELSE [resp EXCEPT !.content.items = SelectSeq(resp.content.items, KeepBlock)]

\* filterEmptyTextBlocks(response)
filterEmptyTextBlocks(resp) ==
    IF ~Has(resp, "content") \/ ~resp.content.isArray THEN resp
    ELSE LET filteredContent == SelectSeq(resp.content.items, KeepBlock) IN
         IF Len(filteredContent) = 0 /\ Len(resp.content.items) > 0 THEN resp
         ELSE [resp EXCEPT !.content.items = filteredContent]

RespInit ==
    /\ response \in Responses
    /\ returned = << >>
    /\ respPhase = "call"

\* const result = filterEmptyTextBlocks(response)
ApplyFilter ==
    /\ respPhase = "call"
    /\ returned' = <<filterEmptyTextBlocks(response)>>
    /\ respPhase' = "done"
    /\ UNCHANGED response

InitResponse == RespInit /\ RwIdle /\ StreamIdle /\ ReqIdle /\ RouteIdle /\ EnIdle /\ BlkIdle
    /\ AuthIdle /\ ToolIdle

NextResponse == ApplyFilter /\ UNCHANGED <<rwVars, streamVars, reqVars, routeVars, enVars, blkVars, authVars, toolVars>>

SpecResponse == InitResponse /\ [][NextResponse]_vars

\* C10: for a response whose content list is not empty, the content list of
\* the result is not empty.
C10_ContentNeverEmptied ==
    (respPhase = "done" /\ Has(response, "content") /\ response.content.isArray
        /\ Len(response.content.items) > 0)
    => (/\ Has(returned[1], "content")
        /\ returned[1].content.isArray
        /\ Len(returned[1].content.items) >= 1)

\* C10 witness: every block of the response was an empty text block.
C10_Witness ==
    /\ respPhase = "done"
    /\ Has(response, "content") /\ response.content.isArray
    /\ response.content.items = <<TextBlock(""), TextBlock("")>>
    /\ returned[1] = response

\* The positions of the blocks of a content list that are not empty text
\* blocks, and the rank of such a position among them.
Survivors(items) ==
    {i \in 1 .. Len(items) : ~(items[i].type = "text" /\ items[i].text = "")}

RankAmong(K, i) == Cardinality({k \in K : k <= i})

\* C11: when the response has a content list of which at least one block is
\* not an empty text block, the result is the response with every field but
\* content unchanged and a content list that holds exactly the blocks that are
\* not empty text blocks, each unmodified and in the original relative order;
\* when every block is an empty text block, or content is missing or is not a
\* list, the result is the original response.
C11_ExactlyEmptyTextRemoved ==
    respPhase = "done" =>
        IF Has(response, "content") /\ response.content.isArray
            /\ Survivors(response.content.items) # {}
        THEN LET items == response.content.items
                 K == Survivors(items)
                 out == returned[1]
             IN /\ DOMAIN out = DOMAIN response
                /\ \A f \in DOMAIN response \ {"content"} : out[f] = response[f]
                /\ out.content.isArray
                /\ Len(out.content.items) = Cardinality(K)
                /\ \A i \in K : out.content.items[RankAmong(K, i)] = items[i]
        ELSE returned[1] = response

\* C11 witness: an empty text block between a text block and a tool_use block
\* was removed and the two other blocks were kept in their order.
C11_Witness ==
    /\ respPhase = "done"
    /\ Has(response, "content") /\ response.content.isArray
    /\ response.content.items = <<TextBlock("Hello"), TextBlock(""), ToolUseBlock>>
    /\ returned[1].content.items = <<TextBlock("Hello"), ToolUseBlock>>
    /\ returned[1].id = response.id

-----------------------------------------------------------------------------
(* preprocessRequest = pipe(normalizeToolIds, fixTrailingAssistant) *)

\* A tool_result block; id and tool_use_id are optional.
ToolResultBare ==
    [type |-> "tool_result", tool_use_id |-> "toolu_1", content |-> "ok"]

ToolResultWithId ==
    [type |-> "tool_result", id |-> "call_9", tool_use_id |-> "toolu_1",
     content |-> "ok"]

ToolResultNoUseId == [type |-> "tool_result", id |-> "call_9", content |-> "ok"]

ToolResultEmptyUseId ==
    [type |-> "tool_result", tool_use_id |-> "", content |-> "ok"]

RequestBlocks ==
    {TextBlock("Hello"), ToolResultBare, ToolResultWithId, ToolResultNoUseId,
     ToolResultEmptyUseId}

\* msg.content: a string or an array of blocks taken from blocks.
MessageContents(blocks) ==
    {[isArray |-> FALSE, text |-> "Hello"]}
    \cup {[isArray |-> TRUE, items |-> items] :
            items \in UNION {[1 .. n -> blocks] : n \in 0 .. MaxMsgBlocks}}

\* tool_result blocks are sent in user messages.
Messages ==
    [role : {"user"}, content : MessageContents(RequestBlocks)]
    \cup [role : {"assistant"}, content : MessageContents({TextBlock("Hello")})]

Requests ==
    {[model |-> "claude", messages |-> msgs] :
        msgs \in UNION {[1 .. n -> Messages] : n \in 0 .. MaxMessages}}

\* { ...obj, [f]: v }
Spread(obj, f, v) == [k \in DOMAIN obj \cup {f} |-> IF k = f THEN v ELSE obj[k]]

\* Faulty variant of NormalizeBlock: tool_use_id is moved to id, not copied.
NormalizeBlockMove(block) ==
    IF block.type = "tool_result" /\ Has(block, "tool_use_id") /\ block.tool_use_id # ""
    THEN [k \in (DOMAIN block \ {"tool_use_id"}) \cup {"id"} |->
            IF k = "id" THEN block.tool_use_id ELSE block[k]]
    ELSE block

\* The callback of msg.content.map: toolUseId is truthy when tool_use_id is
\* present and is not the empty string.
NormalizeBlock(block) ==
    IF block.type = "tool_result" /\ Has(block, "tool_use_id") /\ block.tool_use_id # ""
    THEN Spread(block, "id", block.tool_use_id)
    ELSE block

\* The callback of req.messages.map
NormalizeMessage(msg) ==
    IF ~msg.content.isArray THEN msg
    ELSE [msg EXCEPT !.content.items =
            [j \in 1 .. Len(msg.content.items) |-> NormalizeBlock(msg.content.items[j])]]

\* normalizeToolIds(req)
normalizeToolIds(req) ==
    [req EXCEPT !.messages =
        [i \in 1 .. Len(req.messages) |-> NormalizeMessage(req.messages[i])]]

\* { role: 'user', content: 'Continue.' }
Filler == [role |-> "user", content |-> [isArray |-> FALSE, text |-> "Continue."]]

\* Faulty variant of fixTrailingAssistant: nothing is appended.
fixTrailingNever(req) == req

\* Faulty variant of fixTrailingAssistant: the appended message repeats the role of
\* the last message.
fixTrailingSameRole(req) ==
    LET n == Len(req.messages) IN
    IF n > 0 /\ req.messages[n].role = "assistant"
    THEN [req EXCEPT !.messages = Append(@, [Filler EXCEPT !.role = "assistant"])]
    ELSE req

\* fixTrailingAssistant(req): lastMsg is undefined for an empty list.
fixTrailingAssistant(req) ==
    LET n == Len(req.messages) IN
    IF n > 0 /\ req.messages[n].role = "assistant"
    THEN [req EXCEPT !.messages = Append(@, Filler)]
    ELSE req

\* fn(x), for a transform named by fn
ApplyStep(fn, x) ==
    CASE fn = "normalizeToolIds" -> normalizeToolIds(x)
      [] fn = "fixTrailingAssistant" -> fixTrailingAssistant(x)
      [] fn = "filterEmptyTextBlocks" -> filterEmptyTextBlocks(x)

\* pipe(...fns)(x): the transforms applied to x from left to right.
RECURSIVE pipe(_, _)
pipe(fns, x) ==
    IF fns = << >> THEN x ELSE pipe(Tail(fns), ApplyStep(Head(fns), x))

preprocessRequest(req) == pipe(<<"normalizeToolIds", "fixTrailingAssistant">>, req)

\* Faulty variant of normalizeToolIdsArgument: the id is assigned to the block of
\* the request itself (block.id = toolUseId).
normalizeToolIdsInPlace(req) == normalizeToolIds(req)

\* The argument of normalizeToolIds once it has returned: the function reads
\* req and builds its result with map and object spread; it has no assignment
\* to req or to anything reachable from it.
normalizeToolIdsArgument(req) == req

\* The argument of fixTrailingAssistant once it has returned: the new list is
\* built with array spread; req.messages is not pushed to.
fixTrailingAssistantArgument(req) == req

ReqInit ==
    /\ request \in Requests
    /\ normalized = << >>
    /\ result = << >>
    /\ again = << >>
    /\ reqPhase = "call"
    /\ received = request

\* const body = preprocessRequest(rawBody)
Preprocess ==
    /\ reqPhase = "call"
    /\ request' = normalizeToolIdsArgument(request)
    /\ normalized' = <<fixTrailingAssistantArgument(normalizeToolIds(request))>>
    /\ result' = <<preprocessRequest(request)>>
    /\ reqPhase' = "once"
    /\ UNCHANGED <<again, received>>

\* preprocessRequest(body)
PreprocessAgain ==
    /\ reqPhase = "once"
    /\ again' = <<preprocessRequest(result[1])>>
    /\ reqPhase' = "twice"
    /\ UNCHANGED <<request, normalized, result, received>>

InitRequest == ReqInit /\ RwIdle /\ StreamIdle /\ RespIdle /\ RouteIdle /\ EnIdle /\ BlkIdle
    /\ AuthIdle /\ ToolIdle

NextRequest ==
    \/ Preprocess
       /\ UNCHANGED <<rwVars, streamVars, respVars, routeVars, enVars, blkVars, authVars, toolVars>>
    \/ PreprocessAgain
       /\ UNCHANGED <<rwVars, streamVars, respVars, routeVars, enVars, blkVars, authVars, toolVars>>

SpecRequest == InitRequest /\ [][NextRequest]_vars

-----------------------------------------------------------------------------
(* Properties of the request pipeline, under SpecRequest *)

\* C12: applying preprocessRequest to its own result returns that result: no
\* second filler message is appended and no id is changed again.
C12_PipelineIdempotent ==
    reqPhase = "twice" =>
        /\ again[1] = result[1]
        /\ Len(again[1].messages) = Len(result[1].messages)

\* C12 witness: the first application copied a tool_use_id over an id and
\* appended the filler message; the second application changed nothing.
C12_Witness ==
    /\ reqPhase = "twice"
    /\ Len(request.messages) = 2
    /\ request.messages[1].content = [isArray |-> TRUE, items |-> <<ToolResultWithId>>]
    /\ request.messages[2].role = "assistant"
    /\ result[1].messages[1].content.items[1].id = "toolu_1"
    /\ result[1].messages[3] = Filler
    /\ again[1] = result[1]

\* What the trailing-role fix does to a message list.
TrailingFixed(msgs) ==
    IF Len(msgs) > 0 /\ msgs[Len(msgs)].role = "assistant"
    THEN /\ Len(result[1].messages) = Len(msgs) + 1
         /\ SubSeq(result[1].messages, 1, Len(msgs)) = msgs
         /\ result[1].messages[Len(msgs) + 1].role = "user"
         /\ result[1].messages[Len(msgs) + 1].content
                = [isArray |-> FALSE, text |-> "Continue."]
    ELSE result[1].messages = msgs

LastNotAssistant ==
    LET out == result[1].messages IN
    Len(out) > 0 => out[Len(out)].role # "assistant"

\* C13 as stated: the pipeline returns the original messages, followed by one
\* user filler message exactly when the last one has role assistant, and the
\* last message of a non-empty result is never an assistant message.
C13_OriginalMessagesKept ==
    reqPhase # "call" => (TrailingFixed(request.messages) /\ LastNotAssistant)

\* C13, amended: the pipeline returns the messages as tool-result ID
\* propagation left them (as many as the original ones, with the original
\* roles, in the original order), followed by one user filler message exactly
\* when the last one has role assistant; the last message of a non-empty
\* result is never an assistant message.
C13_NormalizedMessagesKept ==
    reqPhase # "call" =>
        /\ Len(normalized[1].messages) = Len(request.messages)
        /\ \A i \in 1 .. Len(request.messages) :
              normalized[1].messages[i].role = request.messages[i].role
        /\ TrailingFixed(normalized[1].messages)
        /\ LastNotAssistant

\* C13 witness: a conversation that ends with an assistant message and holds a
\* tool_result block without id got the id and one filler message.
C13_Witness ==
    /\ reqPhase = "once"
    /\ Len(request.messages) = 2
    /\ request.messages[1].content = [isArray |-> TRUE, items |-> <<ToolResultBare>>]
    /\ request.messages[2].role = "assistant"
    /\ normalized[1].messages # request.messages
    /\ result[1].messages = Append(normalized[1].messages, Filler)

\* The blocks of a request, as <<message, block>> positions.
BlockPositions(req) ==
    {<<i, j>> \in (1 .. MaxMessages + 1) \X (1 .. MaxMsgBlocks + 1) :
        /\ i <= Len(req.messages)
        /\ req.messages[i].content.isArray
        /\ j <= Len(req.messages[i].content.items)}

\* Messages and blocks are as many as before, and a message with string
\* content is returned unchanged.
ShapeKept(req, out) ==
    /\ DOMAIN out = DOMAIN req
    /\ \A f \in DOMAIN req \ {"messages"} : out[f] = req[f]
    /\ Len(out.messages) = Len(req.messages)
    /\ \A i \in 1 .. Len(req.messages) :
          IF req.messages[i].content.isArray
          THEN /\ out.messages[i].role = req.messages[i].role
               /\ out.messages[i].content.isArray
               /\ Len(out.messages[i].content.items)
                      = Len(req.messages[i].content.items)
          ELSE out.messages[i] = req.messages[i]

\* Block o is block b with id set to b.tool_use_id and nothing else changed.
IdCopied(b, o) ==
    /\ DOMAIN o = DOMAIN b \cup {"id"}
    /\ o.id = b.tool_use_id
    /\ \A f \in DOMAIN b \ {"id"} : o[f] = b[f]

\* C14 as stated: only a tool_result block that lacks an id and carries a
\* tool_use_id is changed (id becomes tool_use_id); every other block is
\* returned unchanged; number and order of messages and blocks are kept.
C14_OnlyBlocksLackingId ==
    reqPhase # "call" =>
        /\ ShapeKept(request, normalized[1])
        /\ \A p \in BlockPositions(request) :
              LET b == request.messages[p[1]].content.items[p[2]]
                  o == normalized[1].messages[p[1]].content.items[p[2]]
              IN IF b.type = "tool_result" /\ ~Has(b, "id") /\ Has(b, "tool_use_id")
                 THEN IdCopied(b, o)
                 ELSE o = b

\* C14, amended: only a tool_result block that carries a non-empty
\* tool_use_id is changed: its id becomes its tool_use_id, whether or not it
\* had an id, and its other fields are unchanged; every other block is
\* returned unchanged; number and order of messages and blocks are kept.
C14_OnlyBlocksWithToolUseId ==
    reqPhase # "call" =>
        /\ ShapeKept(request, normalized[1])
        /\ \A p \in BlockPositions(request) :
              LET b == request.messages[p[1]].content.items[p[2]]
                  o == normalized[1].messages[p[1]].content.items[p[2]]
              IN IF b.type = "tool_result" /\ Has(b, "tool_use_id")
                        /\ b.tool_use_id # ""
                 THEN IdCopied(b, o)
                 ELSE o = b

\* C14 witness: a tool_result block that had another id got its tool_use_id
\* as id, next to a message with string content that was returned as it was.
C14_Witness ==
    /\ reqPhase = "once"
    /\ Len(request.messages) = 2
    /\ request.messages[1].content = [isArray |-> TRUE, items |-> <<ToolResultWithId>>]
    /\ ~request.messages[2].content.isArray
    /\ normalized[1].messages[1].content.items[1]
           = [ToolResultWithId EXCEPT !.id = "toolu_1"]
    /\ normalized[1].messages[2] = request.messages[2]

-----------------------------------------------------------------------------
(* POST /v1/messages, non-streaming path *)

\* StatusCodes.INTERNAL_SERVER_ERROR
INTERNAL_SERVER_ERROR == 500

\* Faulty variant of createApiError: another default type.
createApiErrorInvalidRequest(message) ==
    [error |-> [type |-> "invalid_request_error", message |-> message]]

\* createApiError(message), type defaulted to 'api_error'
createApiError(message) == [error |-> [type |-> "api_error", message |-> message]]

postprocessResponse(resp) == pipe(<<"filterEmptyTextBlocks">>, resp)

RouteInit ==
    /\ handlerPc = "start"
    /\ backendCalls = 0
    /\ backendOutcome = << >>
    /\ replyCode = << >>
    /\ replyBody = << >>
    /\ bodyStream \in BOOLEAN
    /\ streamCalls = 0

\* body.stream is falsy: callBackend(...) is called and awaited.
CallBackend ==
    /\ handlerPc = "start"
    /\ ~bodyStream
    /\ backendCalls' = backendCalls + 1
    /\ handlerPc' = "await"
    /\ UNCHANGED <<backendOutcome, replyCode, replyBody, bodyStream, streamCalls>>

\* The awaited promise is fulfilled with the backend's response.
BackendFulfil ==
    /\ handlerPc = "await"
    /\ \E r \in Responses : backendOutcome' = <<[ok |-> TRUE, value |-> r]>>
    /\ handlerPc' = "fulfilled"
    /\ UNCHANGED <<backendCalls, replyCode, replyBody, bodyStream, streamCalls>>

\* Faulty variant of BackendReject: after a failure the handler goes back to
\* the call and tries the backend again.
BackendRejectRetry ==
    /\ handlerPc = "await"
    /\ \E e \in Failures : backendOutcome' = <<[ok |-> FALSE, value |-> e]>>
    /\ handlerPc' = "start"
    /\ UNCHANGED <<backendCalls, replyCode, replyBody, bodyStream, streamCalls>>

\* The awaited promise is rejected: control goes to catch (e).
BackendReject ==
    /\ handlerPc = "await"
    /\ \E e \in Failures : backendOutcome' = <<[ok |-> FALSE, value |-> e]>>
    /\ handlerPc' = "catch"
    /\ UNCHANGED <<backendCalls, replyCode, replyBody, bodyStream, streamCalls>>

\* const response = postprocessResponse(rawResponse); return response
ReturnResponse ==
    /\ handlerPc = "fulfilled"
    /\ replyBody' = <<postprocessResponse(backendOutcome[1].value)>>
    /\ handlerPc' = "done"
    /\ UNCHANGED <<backendCalls, backendOutcome, replyCode, bodyStream, streamCalls>>

\* reply.code(StatusCodes.INTERNAL_SERVER_ERROR);
\* return createApiError(e instanceof Error ? e.message : 'Unknown error')
ReturnApiError ==
    /\ handlerPc = "catch"
    /\ replyCode' = <<INTERNAL_SERVER_ERROR>>
    /\ replyBody' =
         LET e == backendOutcome[1].value IN
         <<createApiError(IF e.isError THEN e.message ELSE "Unknown error")>>
    /\ handlerPc' = "done"
    /\ UNCHANGED <<backendCalls, backendOutcome, bodyStream, streamCalls>>

\* body.stream is truthy: return streamAnthropic(reply, baseUrl, payload, auth),
\* which writes the head, creates its Set and calls streamBackend(...) once.
CallStreamBackend ==
    /\ handlerPc = "start"
    /\ bodyStream
    /\ StartStream("A")
    /\ streamCalls' = streamCalls + 1
    /\ handlerPc' = "streaming"
    /\ UNCHANGED <<backendCalls, backendOutcome, replyCode, replyBody, bodyStream>>

InitMessages == RouteInit /\ RwIdle /\ StreamInit /\ RespIdle /\ ReqIdle /\ EnIdle /\ BlkIdle
    /\ AuthIdle /\ ToolIdle

NextMessages ==
    \/ CallBackend
       /\ UNCHANGED <<rwVars, streamVars, respVars, reqVars, enVars, blkVars, authVars, toolVars>>
    \/ BackendFulfil
       /\ UNCHANGED <<rwVars, streamVars, respVars, reqVars, enVars, blkVars, authVars, toolVars>>
    \/ BackendReject
       /\ UNCHANGED <<rwVars, streamVars, respVars, reqVars, enVars, blkVars, authVars, toolVars>>
    \/ ReturnResponse
       /\ UNCHANGED <<rwVars, streamVars, respVars, reqVars, enVars, blkVars, authVars, toolVars>>
    \/ ReturnApiError
       /\ UNCHANGED <<rwVars, streamVars, respVars, reqVars, enVars, blkVars, authVars, toolVars>>
    \/ CallStreamBackend
       /\ UNCHANGED <<rwVars, respVars, reqVars, enVars, blkVars, authVars, toolVars>>
    \/ BackendYield("A")
       /\ UNCHANGED <<rwVars, respVars, reqVars, routeVars, enVars, blkVars, authVars, toolVars>>
    \/ WriteChunk("A")
       /\ UNCHANGED <<rwVars, respVars, reqVars, routeVars, enVars, blkVars, authVars, toolVars>>
    \/ BackendClose("A")
       /\ UNCHANGED <<rwVars, respVars, reqVars, routeVars, enVars, blkVars, authVars, toolVars>>
    \/ BackendThrow("A")
       /\ UNCHANGED <<rwVars, respVars, reqVars, routeVars, enVars, blkVars, authVars, toolVars>>
    \/ WriteError("A")
       /\ UNCHANGED <<rwVars, respVars, reqVars, routeVars, enVars, blkVars, authVars, toolVars>>
    \/ EndReply("A")
       /\ UNCHANGED <<rwVars, respVars, reqVars, routeVars, enVars, blkVars, authVars, toolVars>>

SpecMessages == InitMessages /\ [][NextMessages]_vars

\* C16: when the backend call of a non-streaming request has failed, the
\* handler has set status 500 and returned one body {error: {type, message}}
\* with type 'api_error' and, as message, the message of the failure, or
\* 'Unknown error' when the failure is not an Error; the body holds nothing
\* else.
C16_BackendFailureIsApiError ==
    (handlerPc = "done" /\ ~bodyStream /\ ~backendOutcome[1].ok) =>
        /\ replyCode = <<500>>
        /\ Len(replyBody) = 1
        /\ DOMAIN replyBody[1] = {"error"}
        /\ DOMAIN replyBody[1].error = {"type", "message"}
        /\ replyBody[1].error.type = "api_error"
        /\ replyBody[1].error.message =
              IF backendOutcome[1].value.isError
              THEN backendOutcome[1].value.message
              ELSE "Unknown error"

\* C16 witness: the backend call failed with a value that is not an Error.
C16_Witness ==
    /\ handlerPc = "done"
    /\ backendCalls = 1
    /\ backendOutcome = <<[ok |-> FALSE, value |-> [isError |-> FALSE]]>>
    /\ replyCode = <<500>>
    /\ replyBody = <<[error |-> [type |-> "api_error", message |-> "Unknown error"]]>>

-----------------------------------------------------------------------------
(* Blank rewriter output, under Spec *)

\* str is empty or holds nothing but newlines: str.trim() is ''.
IsBlankString(str) == \A i \in 1 .. Len(str) : str[i] = NL

\* C19: the handler writes nothing for a chunk whose rewritten output is
\* empty or whitespace only.
C19_NoWriteForBlankOutput ==
    \A s \in DOMAIN written :
        LET outs == RewriterOutputs(produced[s], {}) IN
        \A k \in 1 .. Len(written[s]) :
            written[s][k].from > 0 => ~IsBlankString(outs[written[s][k].from])

-----------------------------------------------------------------------------
(* enrichSseChunk: the rewriter with metadata backfill *)

\* JSON null; no string of the model is spelled like it.
null == "null"

\* "message_start" events: the embedded message without the four fields,
\* with usage only, with all fields present, with falsy fields, and no
\* embedded message at all.
MessageStarts ==
    {[type |-> "message_start", message |-> m] : m \in
        {[id |-> "msg_1"],
         [id |-> "msg_1", usage |-> [input_tokens |-> 0, output_tokens |-> 0]],
         [id |-> "msg_1", type |-> "message", role |-> "user",
          stop_reason |-> "end_turn", stop_sequence |-> "END",
          usage |-> [input_tokens |-> 5, output_tokens |-> 1]],
         [id |-> "msg_1", type |-> "", role |-> "assistant",
          stop_reason |-> null, stop_sequence |-> null]}}
    \cup {[type |-> "message_start"]}

\* "message_delta" events: usage without input_tokens, usage with
\* input_tokens, no usage.
MessageDeltas ==
    {[type |-> "message_delta", delta |-> [stop_reason |-> "end_turn"],
      usage |-> [output_tokens |-> 7]],
     [type |-> "message_delta", delta |-> [stop_reason |-> "end_turn"],
      usage |-> [input_tokens |-> 3, output_tokens |-> 7]],
     [type |-> "message_delta", delta |-> [stop_reason |-> "end_turn"]]}

\* The text of a JSON value with a space after each colon and comma: it parses to
\* the same value as the text JSON.stringify produces and is not that text.
SpacedJson(value) == [form |-> "json", value |-> value, spaced |-> TRUE]

EnLines ==
    {<< >>, <<EventLine("message_start")>>, <<EventLine("message_delta")>>}
    \cup {<<DataLine(JSONstringify(e))>> :
            e \in MessageStarts \cup MessageDeltas
                  \cup {TextBlockStart(0, ""), TextBlockStart(0, "Hello"), BlockDelta(0),
                        BlockDelta(1), BlockStop(0)}}
    \cup {<<DataLine(DONE)>>, <<DataLine(InvalidJson)>>}
    \cup {<<DataLine(SpacedJson(
            [type |-> "message_delta", delta |-> [stop_reason |-> "end_turn"],
             usage |-> [output_tokens |-> 7]]))>>}

EnChunks == {Join(ls) : ls \in UNION {[1 .. n -> EnLines] : n \in 1 .. MaxLines}}

\* calculatedInputTokens: undefined, or a number (0 included).
TokenCounts == {<< >>, <<0>>, <<1000>>}

\* obj.f || dflt, for a field that holds a string or null
OrDefault(obj, f, dflt) ==
    IF Has(obj, f) /\ obj[f] \notin {"", null} THEN obj[f] ELSE dflt

\* obj.f ?? dflt
Coalesce(obj, f, dflt) ==
    IF Has(obj, f) /\ obj[f] # null THEN obj[f] ELSE dflt

\* { ...data.message, type: ..., role: ..., stop_reason: ..., stop_sequence: ... }
BackfillMessage(message) ==
    [k \in DOMAIN message \cup {"type", "role", "stop_reason", "stop_sequence"} |->
        CASE k = "type" -> OrDefault(message, "type", "message")
          [] k = "role" -> OrDefault(message, "role", "assistant")
          [] k = "stop_reason" -> Coalesce(message, "stop_reason", null)
          [] k = "stop_sequence" -> Coalesce(message, "stop_sequence", null)
          [] OTHER -> message[k]]

\* Faulty variant of SetInputTokens: the usage object is replaced.
SetInputTokensOnly(usage, n) == [input_tokens |-> n]

\* usage.input_tokens = calculatedInputTokens
SetInputTokens(usage, n) == Spread(usage, "input_tokens", n)

\* The message_start branch: data.message is rebuilt, and its usage, when it
\* has one and a count is given, gets the count as input_tokens.
EnrichMessageStart(data, count) ==
    LET message == BackfillMessage(data.message) IN
    [data EXCEPT !.message =
        IF count # << >> /\ Has(message, "usage")
        THEN [message EXCEPT !.usage = SetInputTokens(@, count[1])]
        ELSE message]

\* Faulty variant of EnrichParsed: a message_delta with usage is written anew
\* with JSON.stringify also when there is no precomputed count.
EnrichParsedRewriteDelta(st, line, i, data, count) ==
    IF Has(data, "type") /\ data.type = "message_start" /\ Has(data, "message")
    THEN Keep(st, <<DataLine(JSONstringify(EnrichMessageStart(data, count)))>>, i)
    ELSE IF Has(data, "type") /\ data.type = "message_delta" /\ Has(data, "usage")
    THEN Keep(st, <<DataLine(JSONstringify(
                IF count = << >> THEN data
                ELSE [data EXCEPT !.usage = SetInputTokens(@, count[1])]))>>, i)
    ELSE IF IsEmptyTextStart(data)
    THEN [Skip(st) EXCEPT !.emptyBlockIndices =
              IF Has(data, "index") THEN @ \cup {data.index} ELSE @]
    ELSE IF IsTrackedDeltaOrStop(data, st.emptyBlockIndices)
    THEN Skip(st)
    ELSE Keep(st, line, i)

\* The try block of enrichSseChunk, for a payload that parsed.
EnrichParsed(st, line, i, data, count) ==
    IF Has(data, "type") /\ data.type = "message_start" /\ Has(data, "message")
    THEN Keep(st, <<DataLine(JSONstringify(EnrichMessageStart(data, count)))>>, i)
    ELSE IF Has(data, "type") /\ data.type = "message_delta" /\ Has(data, "usage")
            /\ count # << >>
    THEN Keep(st, <<DataLine(JSONstringify(
                [data EXCEPT !.usage = SetInputTokens(@, count[1])]))>>, i)
    ELSE IF /\ Has(data, "type") /\ data.type = "content_block_start"
            /\ Has(data, "content_block")
            /\ Has(data.content_block, "type") /\ data.content_block.type = "text"
            /\ Has(data.content_block, "text") /\ data.content_block.text = ""
    THEN [Skip(st) EXCEPT !.emptyBlockIndices =
              IF Has(data, "index") THEN @ \cup {data.index} ELSE @]
    ELSE IF /\ Has(data, "index") /\ data.index \in st.emptyBlockIndices
            /\ Has(data, "type")
            /\ data.type \in {"content_block_delta", "content_block_stop"}
    THEN Skip(st)
    ELSE Keep(st, line, i)

\* One iteration of  for (const line of lines)  in enrichSseChunk
EnrichLine(st, line, i, count) ==
    IF StartsWithEvent(line)
    THEN [st EXCEPT !.pendingEventLine = <<line>>, !.pendingPos = <<i>>]
    ELSE IF ~StartsWithData(line) THEN Keep(st, line, i)
    ELSE IF Slice6(line) = DONE THEN Keep(st, line, i)
    ELSE LET parsed == JSONparse(Slice6(line)) IN
         IF parsed.ok THEN EnrichParsed(st, line, i, parsed.data, count)
         ELSE Keep(st, line, i)

RECURSIVE EnrichLoop(_, _, _, _)
EnrichLoop(st, lines, i, count) ==
    IF i > Len(lines) THEN st
    ELSE EnrichLoop(EnrichLine(st, lines[i], i, count), lines, i + 1, count)

\* enrichSseChunk(chunk, calculatedInputTokens, emptyBlockIndices)
enrichSseChunk(str, count, indices) ==
    LET lines == Split(str)
        st0 == [outputLines |-> << >>, kept |-> << >>,
                pendingEventLine |-> << >>, pendingPos |-> << >>,
                emptyBlockIndices |-> indices]
        st == FlushPending(EnrichLoop(st0, lines, 1, count))
    IN [out |-> Join(st.outputLines),
        emptyBlockIndices |-> st.emptyBlockIndices,
        kept |-> st.kept]

EnInit ==
    /\ enChunk \in EnChunks
    /\ calculatedInputTokens \in TokenCounts
    /\ enBefore \in {{}, {0}}
    /\ enriched = << >>
    /\ filtered = << >>
    /\ enPhase = "call"

\* const result = enrichSseChunk(chunk, calculatedInputTokens, emptyBlocks)
CallEnrich ==
    /\ enPhase = "call"
    /\ enriched = << >>
    /\ enriched' = <<enrichSseChunk(enChunk, calculatedInputTokens, enBefore)>>
    /\ enPhase' = IF filtered = << >> THEN "call" ELSE "done"
    /\ UNCHANGED <<enChunk, calculatedInputTokens, enBefore, filtered>>

\* filterSseChunk(chunk, emptyBlockIndices), on a Set with the same members
CallFilter ==
    /\ enPhase = "call"
    /\ filtered = << >>
    /\ filtered' = <<filterSseChunk(enChunk, enBefore)>>
    /\ enPhase' = IF enriched = << >> THEN "call" ELSE "done"
    /\ UNCHANGED <<enChunk, calculatedInputTokens, enBefore, enriched>>

InitEnrich == EnInit /\ RwIdle /\ StreamIdle /\ RespIdle /\ ReqIdle /\ RouteIdle /\ BlkIdle
    /\ AuthIdle /\ ToolIdle

NextEnrich ==
    \/ CallEnrich
       /\ UNCHANGED <<rwVars, streamVars, respVars, reqVars, routeVars, blkVars, authVars, toolVars>>
    \/ CallFilter
       /\ UNCHANGED <<rwVars, streamVars, respVars, reqVars, routeVars, blkVars, authVars, toolVars>>

SpecEnrich == InitEnrich /\ [][NextEnrich]_vars

-----------------------------------------------------------------------------
(* Properties of the metadata backfill, under SpecEnrich *)

EnInLines == Split(enChunk)

\* The line a call output for line p of the chunk, when it output one.
OutputAt(res, p) ==
    LET j == CHOOSE k \in 1 .. Len(res.kept) : res.kept[k] = p IN
    Split(res.out)[j]

IsOutputAt(res, p) == \E k \in 1 .. Len(res.kept) : res.kept[k] = p

IsMessageStartAt(lines, p) ==
    /\ IsJsonAt(lines, p)
    /\ JsonAt(lines, p).type = "message_start"
    /\ Has(JsonAt(lines, p), "message")

IsUsageDeltaAt(lines, p) ==
    /\ IsJsonAt(lines, p)
    /\ JsonAt(lines, p).type = "message_delta"
    /\ Has(JsonAt(lines, p), "usage")

BackfillDefault(f) ==
    CASE f = "type" -> "message"
      [] f = "role" -> "assistant"
      [] OTHER -> null

\* Message n is message m with each of the four fields set to its default
\* exactly when m lacks it, and with the count as usage.input_tokens when a
\* count is given and m has usage.
IsBackfillOf(m, n, count) ==
    /\ \A f \in {"type", "role", "stop_reason", "stop_sequence"} :
          /\ Has(n, f)
          /\ n[f] = IF Has(m, f) THEN m[f] ELSE BackfillDefault(f)
    /\ Has(m, "usage") =>
          /\ Has(n, "usage")
          /\ IF count # << >> THEN n.usage.input_tokens = count[1]
             ELSE n.usage = m.usage

\* C17: for a message_start event the rewriter of the route forwards the
\* event with type, role, stop_reason and stop_sequence of the embedded
\* message set to "message", "assistant", null and null exactly where the field
\* is missing, present values unchanged, and with usage.input_tokens equal to
\* the precomputed count when there is one, left as sent when there is none.
C17_MessageStartBackfilled ==
    filtered # << >> =>
        \A p \in 1 .. Len(EnInLines) :
            IsMessageStartAt(EnInLines, p) =>
                /\ IsOutputAt(filtered[1], p)
                /\ IsJsonAt(<<OutputAt(filtered[1], p)>>, 1)
                /\ IsBackfillOf(JsonAt(EnInLines, p).message,
                                JsonAt(<<OutputAt(filtered[1], p)>>, 1).message,
                                calculatedInputTokens)

\* Usage u with input_tokens set to n and nothing else changed.
IsUsageWithCount(u, v, n) ==
    /\ DOMAIN v = DOMAIN u \cup {"input_tokens"}
    /\ v.input_tokens = n
    /\ \A f \in DOMAIN u \ {"input_tokens"} : v[f] = u[f]

\* C18: for a message_delta event that carries usage, enrichSseChunk outputs,
\* when a count is given, the event with usage.input_tokens equal to the
\* count, usage.output_tokens and every other field unchanged, and, when no
\* count is given, the event line unchanged.
C18_MessageDeltaUsage ==
    enriched # << >> =>
        \A p \in 1 .. Len(EnInLines) :
            IsUsageDeltaAt(EnInLines, p) =>
                /\ IsOutputAt(enriched[1], p)
                /\ IF calculatedInputTokens = << >>
                   THEN OutputAt(enriched[1], p) = EnInLines[p]
                   ELSE /\ IsJsonAt(<<OutputAt(enriched[1], p)>>, 1)
                        /\ LET d == JsonAt(EnInLines, p)
                               o == JsonAt(<<OutputAt(enriched[1], p)>>, 1)
                           IN /\ DOMAIN o = DOMAIN d
                              /\ \A f \in DOMAIN d \ {"usage"} : o[f] = d[f]
                              /\ IsUsageWithCount(d.usage, o.usage,
                                                  calculatedInputTokens[1])

\* C18 witness: a message_delta whose usage had output_tokens only came out
\* with input_tokens 1000 next to it, after its event: line.
C18_Witness ==
    /\ enriched # << >>
    /\ calculatedInputTokens = <<1000>>
    /\ enChunk = Join(<< <<EventLine("message_delta")>>,
                        <<DataLine(JSONstringify(
                            [type |-> "message_delta",
                             delta |-> [stop_reason |-> "end_turn"],
                             usage |-> [output_tokens |-> 7]]))>> >>)
    /\ enriched[1].out = Join(<< <<EventLine("message_delta")>>,
                        <<DataLine(JSONstringify(
                            [type |-> "message_delta",
                             delta |-> [stop_reason |-> "end_turn"],
                             usage |-> [input_tokens |-> 1000,
                                        output_tokens |-> 7]]))>> >>)

-----------------------------------------------------------------------------
(* streamAnthropic, one request, with a backend whose chunks may end inside *)
(* a frame; the handler's own steps are taken when they are enabled         *)

\* A data: line cut off in the middle of its JSON text.
TruncatedJson == [form |-> "text", text |-> "{\"type\":\"content_block_delta\",\"ind"]

\* Chunks that end inside a frame: before the blank line that ends it, and
\* inside its data: line.
PartialChunks ==
    {<<EventLine("content_block_delta"), NL,
       DataLine(JSONstringify(BlockDelta(0)))>>,
     <<EventLine("content_block_delta"), NL, DataLine(TruncatedJson)>>}

\* The backend generator yields a chunk that ends inside a frame.
BackendYieldPartial(s) ==
    /\ CanPull(s)
    /\ Len(produced[s]) < MaxChunks
    /\ \E c \in PartialChunks :
         /\ chunk' = [chunk EXCEPT ![s] = c]
         /\ produced' = [produced EXCEPT ![s] = Append(@, c)]
    /\ afterClose' =
         [afterClose EXCEPT ![s] = IF connected[s] THEN @ ELSE @ \cup {"read"}]
    /\ pc' = [pc EXCEPT ![s] = "body"]
    /\ UNCHANGED <<emptyBlockIndices, written, failure, statusCode, ended, hijacked,
                   connected>>

NextSolo ==
    \/ StartStream("A")
       /\ UNCHANGED <<rwVars, respVars, reqVars, routeVars, enVars, blkVars, authVars, toolVars>>
    \/ BackendYield("A")
       /\ UNCHANGED <<rwVars, respVars, reqVars, routeVars, enVars, blkVars, authVars, toolVars>>
    \/ BackendYieldPartial("A")
       /\ UNCHANGED <<rwVars, respVars, reqVars, routeVars, enVars, blkVars, authVars, toolVars>>
    \/ WriteChunk("A")
       /\ UNCHANGED <<rwVars, respVars, reqVars, routeVars, enVars, blkVars, authVars, toolVars>>
    \/ BackendClose("A")
       /\ UNCHANGED <<rwVars, respVars, reqVars, routeVars, enVars, blkVars, authVars, toolVars>>
    \/ BackendThrow("A")
       /\ UNCHANGED <<rwVars, respVars, reqVars, routeVars, enVars, blkVars, authVars, toolVars>>
    \/ WriteError("A")
       /\ UNCHANGED <<rwVars, respVars, reqVars, routeVars, enVars, blkVars, authVars, toolVars>>
    \/ EndReply("A")
       /\ UNCHANGED <<rwVars, respVars, reqVars, routeVars, enVars, blkVars, authVars, toolVars>>
    \/ ClientDisconnect("A")
       /\ UNCHANGED <<rwVars, respVars, reqVars, routeVars, enVars, blkVars, authVars, toolVars>>

\* The catch block and the two statements after try/catch are synchronous
\* code of the handler: once control is there, they run.
SpecSolo ==
    /\ Init
    /\ [][NextSolo]_vars
    /\ WF_vars(WriteError("A")
       /\ UNCHANGED <<rwVars, respVars, reqVars, routeVars, enVars, blkVars, authVars, toolVars>>)
    /\ WF_vars(EndReply("A")
       /\ UNCHANGED <<rwVars, respVars, reqVars, routeVars, enVars, blkVars, authVars, toolVars>>)

\* All the bytes written to the client, in order.
RECURSIVE Concat(_)
Concat(ws) == IF ws = << >> THEN << >> ELSE Head(ws).data \o Concat(Tail(ws))

\* str is a sequence of frames, each ended by a blank line.
IsCompleteFrames(str) ==
    \/ str = << >>
    \/ Len(str) >= 2 /\ str[Len(str)] = NL /\ str[Len(str) - 1] = NL

\* C21: when a streaming request is over, what the client received is a
\* sequence of complete frames, and the error frame, if there is one, starts
\* where a frame may start.
C21_OnlyCompleteFrames ==
    \A s \in Streams :
        pc[s] = "done" =>
            /\ IsCompleteFrames(Concat(LoopWrites(s)))
            /\ IsCompleteFrames(Concat(written[s]))

\* C27: the response of a streaming request is ended at most once; when it
\* is ended, every chunk the backend yielded has been written and, after a
\* failure, the error frame is the last write; nothing is written after the
\* end; and once the backend has closed or failed the response is eventually
\* ended.
C27_EndsExactlyOnce ==
    /\ [](\A s \in Streams : ended[s] <= 1)
    /\ [](\A s \in Streams :
            ended[s] = 1 =>
                /\ Len(LoopWrites(s)) = Len(produced[s])
                /\ IF failure[s] = << >> THEN written[s] = LoopWrites(s)
                   ELSE /\ Len(written[s]) = Len(produced[s]) + 1
                        /\ written[s][Len(written[s])].from = 0)
    /\ [][\A s \in Streams : ended[s] >= 1 => written'[s] = written[s]]_vars
    /\ \A s \in Streams : (pc[s] \in {"catch", "end"}) ~> (ended[s] = 1)

\* C27 witness: the backend failed after one chunk; the chunk and the error
\* frame were written and the response was ended once.
C27_Witness ==
    /\ pc["A"] = "done"
    /\ failure["A"] # << >>
    /\ Len(produced["A"]) = 1
    /\ Len(written["A"]) = 2
    /\ ended["A"] = 1

-----------------------------------------------------------------------------
(* The request pipeline and its argument, under SpecRequest *)

-----------------------------------------------------------------------------
(* The number of backend attempts of one request, under SpecMessages *)

\* The handler of the request has returned.
HandlerFinished == handlerPc = "done" \/ (handlerPc = "streaming" /\ pc["A"] = "done")

\* The backend attempt of the request has failed.
AttemptFailed ==
    \/ (backendOutcome # << >> /\ ~backendOutcome[1].ok)
    \/ failure["A"] # << >>

\* C22: a request causes at most one backend attempt.  callBackend and
\* streamBackend are called at most once between them; when the handler has
\* returned, exactly the one that body.stream selects was called, once; once
\* the attempt has failed, no step calls the backend again; and a failed
\* attempt has been reported to the client when the handler returns, as
\* status 500 with an api_error body or as a last SSE error frame.
C22_SingleBackendAttempt ==
    /\ [](backendCalls + streamCalls <= 1)
    /\ [](HandlerFinished =>
            /\ backendCalls = (IF bodyStream THEN 0 ELSE 1)
            /\ streamCalls = (IF bodyStream THEN 1 ELSE 0))
    /\ [][AttemptFailed =>
            /\ backendCalls' = backendCalls
            /\ streamCalls' = streamCalls]_vars
    /\ []((HandlerFinished /\ AttemptFailed) =>
            IF bodyStream
            THEN /\ written["A"] # << >>
                 /\ written["A"][Len(written["A"])].data = formatSseError(failure["A"][1])
            ELSE /\ replyCode = <<INTERNAL_SERVER_ERROR>>
                 /\ Len(replyBody) = 1
                 /\ replyBody[1].error.type = "api_error")

\* C22 witness: a streaming request whose backend failed after one chunk; the
\* handler has returned after one call of streamBackend and none of callBackend.
C22_Witness ==
    /\ bodyStream
    /\ handlerPc = "streaming"
    /\ pc["A"] = "done"
    /\ failure["A"] # << >>
    /\ Len(produced["A"]) = 1
    /\ streamCalls = 1
    /\ backendCalls = 0

-----------------------------------------------------------------------------
(* getBackendAuth: which credential goes to the backend *)

\* The characters '.cluster.local', as the tokens URLs are made of here.
ClusterLocal == <<".cluster", ".local">>

\* str.includes(sub)
Includes(str, sub) ==
    \E i \in 1 .. (Len(str) - Len(sub) + 1) : SubSeq(str, i, i + Len(sub) - 1) = sub

\* isInternalService(url)
isInternalService(url) == Includes(url, ClusterLocal)

\* Backend URLs: two cluster services, two external hosts, a host named
\* cluster.local without a leading dot, and an external host whose path holds
\* '.cluster.local'.
BackendUrls ==
    {<<"http://", "vllm", ".svc", ".cluster", ".local", ":8000">>,
     <<"https://", "inference", ".cluster", ".local", "/v1">>,
     <<"https://", "api", ".example", ".com">>,
     <<"http://", "localhost", ":8000">>,
     <<"https://", "cluster", ".local">>,
     <<"https://", "api", ".example", ".com", "/", ".cluster", ".local">>}

\* backend.apiKey: undefined, '' or a key.
ApiKeys == {<< >>, <<"">>, <<"backend-key">>}

\* req.headers.authorization: undefined, '' or a header value.
ClientAuths == {<< >>, <<"">>, <<"Bearer client-token">>}

\* a || b on optional strings
OrElse(a, b) == IF a \notin {<< >>, <<"">>} THEN a ELSE b

\* Faulty variant of getBackendAuth: an internal service with no key of its own
\* is sent the client's credential.
getBackendAuthFallback(backend, clientAuth) == OrElse(backend.apiKey, clientAuth)

\* getBackendAuth(backend, clientAuth)
getBackendAuth(backend, clientAuth) ==
    IF isInternalService(backend.url)
    THEN backend.apiKey
    ELSE OrElse(backend.apiKey, clientAuth)

\* One backend configuration and two requests that differ at most in their
\* Authorization header.
AuthInit ==
    /\ backendConfig \in {<<[url |-> u, apiKey |-> k]>> : u \in BackendUrls, k \in ApiKeys}
    /\ clientAuths \in ClientAuths \X ClientAuths
    /\ authResults = << >>

\* const auth = getBackendAuth(backend, req.headers.authorization), once for
\* each of the two requests.
GetBackendAuth ==
    /\ authResults = << >>
    /\ authResults' = <<getBackendAuth(backendConfig[1], clientAuths[1]),
                        getBackendAuth(backendConfig[1], clientAuths[2])>>
    /\ UNCHANGED <<backendConfig, clientAuths>>

InitAuth == AuthInit /\ RwIdle /\ StreamIdle /\ RespIdle /\ ReqIdle /\ RouteIdle /\ EnIdle
    /\ BlkIdle /\ ToolIdle

NextAuth ==
    \/ GetBackendAuth
       /\ UNCHANGED <<rwVars, streamVars, respVars, reqVars, routeVars, enVars, blkVars, toolVars>>

SpecAuth == InitAuth /\ [][NextAuth]_vars

\* C25: for a backend whose URL is an internal cluster service, getBackendAuth
\* returns the backend's apiKey for both requests, whatever their
\* Authorization values are and also when the key is empty or missing, so the
\* two results are equal; for any other backend it returns the apiKey when
\* that is non-empty, otherwise the request's Authorization value, otherwise
\* undefined.
C25_InternalAuthIgnoresClient ==
    authResults # << >> =>
        LET backend == backendConfig[1] IN
        IF isInternalService(backend.url)
        THEN /\ authResults[1] = backend.apiKey
             /\ authResults[2] = backend.apiKey
             /\ authResults[1] = authResults[2]
        ELSE \A i \in 1 .. 2 :
               authResults[i] =
                 IF backend.apiKey \notin {<< >>, <<"">>} THEN backend.apiKey
                 ELSE IF clientAuths[i] # << >> THEN clientAuths[i]
                 ELSE << >>

\* C25 witness: a cluster service with an empty key, one request with an
\* Authorization header and one without; both were given the empty key.
C25_Witness ==
    /\ backendConfig = <<[url |-> <<"http://", "vllm", ".svc", ".cluster", ".local", ":8000">>,
                          apiKey |-> <<"">>]>>
    /\ clientAuths = <<<<"Bearer client-token">>, << >>>>
    /\ authResults = <<<<"">>, <<"">>>>

-----------------------------------------------------------------------------
(* normalizeOpenAIToolIds: tool-call ids and arguments of an OpenAI-shaped
   request.  src/utils/convert.ts is not part of the sources at hand; the
   definitions follow the specification and docs/mistral-edge-cases.md. *)

\* Most tool calls in one request.
MaxToolCalls == 2

\* Length of the id the backend requires.
IdLength == 9

\* The alphanumeric characters ids are made of here.
Alnum == <<"1", "2", "3", "a", "b", "c">>

\* c.charCodeAt(0)
CharCode(c) ==
    CASE c = "-" -> 45 [] c = "1" -> 49 [] c = "2" -> 50 [] c = "3" -> 51
      [] c = "_" -> 95 [] c = "a" -> 97 [] c = "b" -> 98 [] c = "c" -> 99

IsAlnum(c) == \E i \in 1 .. Len(Alnum) : Alnum[i] = c

\* The id matches the required pattern: IdLength alphanumeric characters.
IsConformant(id) == Len(id) = IdLength /\ \A i \in 1 .. Len(id) : IsAlnum(id[i])

\* Ids of tool calls: two conformant ones, short ones, long ones, ids with
\* special characters (one of them IdLength characters long) and the empty id.
ToolIds ==
    {<<"a", "b", "c", "1", "2", "3", "a", "b", "c">>,
     <<"1", "2", "3", "1", "2", "3", "1", "2", "3">>,
     <<"a", "b", "c">>,
     <<"a", "_", "1">>,
     <<"a", "b", "c", "_", "1", "2", "3", "a", "b">>,
     <<"c", "-", "a", "b", "c", "1", "2", "3", "a", "-", "b", "c", "1", "2", "3">>,
     <<"c", "_", "1", "2", "3", "1", "2", "3", "1", "2", "3">>,
     << >>}

\* The ways the new id is derived that the description leaves open: a hash
\* of the character codes with one of two multipliers, mixed per output
\* position, or the last IdLength alphanumeric characters, padded on the left.
IdSchemes ==
    {[kind |-> "hash", multiplier |-> 31], [kind |-> "hash", multiplier |-> 33],
     [kind |-> "tail", pad |-> "1"]}

\* The hash of the character codes of id, kept below 2^16.
RECURSIVE HashCodes(_, _)
HashCodes(id, multiplier) ==
    IF id = << >> THEN 0
    ELSE (HashCodes(SubSeq(id, 1, Len(id) - 1), multiplier) * multiplier
            + CharCode(id[Len(id)])) % 65536

\* The id derived from the hash: one alphanumeric character per position.
HashedId(id, multiplier) ==
    [i \in 1 .. IdLength |->
        Alnum[((HashCodes(id, multiplier) + i * multiplier) % Len(Alnum)) + 1]]

\* The id derived from the last characters: special characters removed, the
\* last IdLength kept, padded on the left when shorter.
TailId(id, pad) ==
    LET clean == SelectSeq(id, IsAlnum)
        missing == IdLength - Len(clean)
    IN  IF missing <= 0
        THEN SubSeq(clean, Len(clean) - IdLength + 1, Len(clean))
        ELSE [i \in 1 .. missing |-> pad] \o clean

\* Faulty variant of normalizeToolId: the last IdLength characters are taken
\* as they are.
normalizeToolIdLastChars(id, scheme) ==
    IF Len(id) >= IdLength
    THEN SubSeq(id, Len(id) - IdLength + 1, Len(id))
    ELSE [i \in 1 .. IdLength - Len(id) |-> "1"] \o id

\* normalizeToolId(id): a conformant id is left as it is, any other id is
\* replaced by the derived one.
normalizeToolId(id, scheme) ==
    IF IsConformant(id) THEN id
    ELSE IF scheme.kind = "hash" THEN HashedId(id, scheme.multiplier)
    ELSE TailId(id, scheme.pad)

\* null, as the value of arguments
ArgNull == [form |-> "null"]

\* {}
EmptyObject == [k \in {} |-> 0]

\* Values of function.arguments: texts of a JSON object as JSON.stringify
\* writes them and with spaces, the text {}, a truncated text, a text with a
\* missing delimiter, the empty string, and null.
ArgValues ==
    {JSONstringify([city |-> "Paris"]),
     SpacedJson([city |-> "Paris"]),
     JSONstringify(EmptyObject),
     [form |-> "text", text |-> "{\"city\":\"Par"],
     [form |-> "text", text |-> "{\"city\":\"Paris\" \"days\":2}"],
     [form |-> "text", text |-> ""],
     ArgNull}

\* Faulty variant of sanitizeArguments: the value is handed to JSON.parse as
\* it is, which reads null as the text 'null' and accepts it.
sanitizeArgumentsParseOnly(arguments) ==
    IF arguments = ArgNull \/ JSONparse(arguments).ok
    THEN arguments
    ELSE JSONstringify(EmptyObject)

\* The arguments after validation: a string that JSON.parse accepts is kept,
\* anything else is replaced by '{}'.
sanitizeArguments(arguments) ==
    IF arguments # ArgNull /\ JSONparse(arguments).ok
    THEN arguments
    ELSE JSONstringify(EmptyObject)

\* The tool calls a request can carry: every id with valid arguments, and
\* every value of arguments with a conformant id.
ToolCalls ==
    {[id |-> i, arguments |-> JSONstringify([city |-> "Paris"])] : i \in ToolIds}
    \cup {[id |-> <<"a", "b", "c", "1", "2", "3", "a", "b", "c">>, arguments |-> a] :
            a \in ArgValues}

\* normalizeOpenAIToolIds on the tool calls of one request
normalizeOpenAIToolIds(calls, scheme) ==
    [i \in 1 .. Len(calls) |->
        [id |-> normalizeToolId(calls[i].id, scheme),
         arguments |-> sanitizeArguments(calls[i].arguments)]]

ToolInit ==
    /\ toolCalls \in UNION {[1 .. n -> ToolCalls] : n \in 1 .. MaxToolCalls}
    /\ idScheme \in IdSchemes
    /\ normalizedCalls = << >>
    /\ renormalizedCalls = << >>
    /\ toolPhase = "call"

\* The request passes through normalizeOpenAIToolIds.
NormalizeToolCalls ==
    /\ toolPhase = "call"
    /\ normalizedCalls' = normalizeOpenAIToolIds(toolCalls, idScheme)
    /\ toolPhase' = "once"
    /\ UNCHANGED <<toolCalls, idScheme, renormalizedCalls>>

\* The normalized request passes through normalizeOpenAIToolIds again.
NormalizeToolCallsAgain ==
    /\ toolPhase = "once"
    /\ renormalizedCalls' = normalizeOpenAIToolIds(normalizedCalls, idScheme)
    /\ toolPhase' = "twice"
    /\ UNCHANGED <<toolCalls, idScheme, normalizedCalls>>

InitToolCalls == ToolInit /\ RwIdle /\ StreamIdle /\ RespIdle /\ ReqIdle /\ RouteIdle
    /\ EnIdle /\ BlkIdle /\ AuthIdle

NextToolCalls ==
    \/ NormalizeToolCalls
       /\ UNCHANGED <<rwVars, streamVars, respVars, reqVars, routeVars, enVars, blkVars, authVars>>
    \/ NormalizeToolCallsAgain
       /\ UNCHANGED <<rwVars, streamVars, respVars, reqVars, routeVars, enVars, blkVars, authVars>>

SpecToolCalls == InitToolCalls /\ [][NextToolCalls]_vars

IsValidJsonText(arguments) == arguments # ArgNull /\ JSONparse(arguments).ok

\* C24: after sanitization the arguments of every tool call are valid JSON
\* text: arguments that were not parseable (truncated, missing delimiter,
\* empty string, null) are exactly '{}', and arguments that were the text of a
\* JSON object are the same text as before.
C24_ArgumentsAlwaysValidJson ==
    toolPhase \in {"once", "twice"} =>
        \A i \in 1 .. Len(toolCalls) :
            /\ IsValidJsonText(normalizedCalls[i].arguments)
            /\ ~IsValidJsonText(toolCalls[i].arguments) =>
                   normalizedCalls[i].arguments = JSONstringify(EmptyObject)
            /\ IsValidJsonText(toolCalls[i].arguments) =>
                   normalizedCalls[i].arguments = toolCalls[i].arguments

\* C24 witness: a request with null arguments on one tool call and the
\* spaced text of an object on the other, after sanitization.
C24_Witness ==
    /\ toolPhase = "once"
    /\ Len(toolCalls) = 2
    /\ toolCalls[1].arguments = ArgNull
    /\ toolCalls[2].arguments = SpacedJson([city |-> "Paris"])
    /\ normalizedCalls[1].arguments = JSONstringify(EmptyObject)
    /\ normalizedCalls[2].arguments = toolCalls[2].arguments

-----------------------------------------------------------------------------
(* The Set of suppressed indices from call to call, under SpecRewriter *)

\* C29: a call of the rewriter removes no index from the Set; the indices it
\* adds are exactly those of the parseable content_block_start data lines of
\* its chunk that open a text block with empty text, so no other line changes
\* the Set; and nothing but the Set is carried to the next call: the lines a
\* call returns are lines of its own chunk, in their order, and an event:
\* line held at the end of the chunk is returned by the same call.
C29_SuppressedSetOnlyGrows ==
    rwPhase = "called" =>
        /\ rwBefore \subseteq emptyBlocks
        /\ emptyBlocks = rwBefore \cup EmptyStartsIn(RwLines)
        /\ \A j \in 1 .. Len(rwKept) :
             /\ rwKept[j] \in 1 .. Len(RwLines)
             /\ j > 1 => rwKept[j - 1] < rwKept[j]
        /\ rwResult = Join([j \in 1 .. Len(rwKept) |-> RwLines[rwKept[j]]])
        /\ StartsWithEvent(RwLines[Len(RwLines)]) =>
             (rwKept # << >> /\ rwKept[Len(rwKept)] = Len(RwLines))

\* C29 witness: index 0 is in the Set from an earlier chunk; the chunk holds
\* the content_block_stop of block 0 and the start of the empty text block 1;
\* afterwards the Set holds both indices.
C29_Witness ==
    /\ rwPhase = "called"
    /\ rwBefore = {0}
    /\ RwLines = <<<<DataLine(JSONstringify(BlockStop(0)))>>,
                   <<DataLine(JSONstringify(TextBlockStart(1, "")))>>>>
    /\ emptyBlocks = {0, 1}

-----------------------------------------------------------------------------
(* enrichSseChunk against filterSseChunk, under SpecEnrich *)

\* No data: line of the chunk holds a message_start event.
NoMessageStart ==
    \A p \in 1 .. Len(EnInLines) :
        IsJsonAt(EnInLines, p) => JsonAt(EnInLines, p).type # "message_start"

\* C30: on a chunk with no message_start event and with no precomputed token
\* count, enrichSseChunk and filterSseChunk, started on the same Set, return
\* the same string and leave the same Set.
C30_EnrichAgreesWithFilter ==
    (enPhase = "done" /\ calculatedInputTokens = << >> /\ NoMessageStart) =>
        /\ enriched[1].out = filtered[1].out
        /\ enriched[1].emptyBlockIndices = filtered[1].emptyBlockIndices

\* C30 witness: no count, the Set holds index 0, and the chunk holds a
\* message_delta with usage whose text is not what JSON.stringify would
\* write, then the content_block_stop of block 0; both functions returned the
\* message_delta line alone.
C30_Witness ==
    /\ enPhase = "done"
    /\ calculatedInputTokens = << >>
    /\ enBefore = {0}
    /\ EnInLines =
         <<<<DataLine(SpacedJson(
               [type |-> "message_delta", delta |-> [stop_reason |-> "end_turn"],
                usage |-> [output_tokens |-> 7]]))>>,
           <<DataLine(JSONstringify(BlockStop(0)))>>>>
    /\ enriched[1].out = Join(<<EnInLines[1]>>)
    /\ filtered[1].out = enriched[1].out

-----------------------------------------------------------------------------
(* SpecBlocks: the content blocks of one stream through filterSseChunk *)

\* Most deltas of one content block.
MaxDeltas == 1

BlockKinds == {"empty_text", "text", "tool_use"}

\* The events of the content blocks: one start per index, its deltas, its stop.
BlockEvents ==
    {[index |-> k, type |-> "content_block_start", kind |-> b] :
        k \in BlockIndices, b \in BlockKinds}
    \cup {[index |-> k, type |-> "content_block_delta", n |-> n] :
        k \in BlockIndices, n \in 1 .. MaxDeltas}
    \cup {[index |-> k, type |-> "content_block_stop"] : k \in BlockIndices}

\* The JSON object of an event.
EventJson(e) ==
    IF e.type = "content_block_start"
    THEN CASE e.kind = "empty_text" -> TextBlockStart(e.index, "")
           [] e.kind = "text" -> TextBlockStart(e.index, "Hello")
           [] e.kind = "tool_use" -> ToolUseBlockStart(e.index)
    ELSE IF e.type = "content_block_delta" THEN BlockDelta(e.index)
    ELSE BlockStop(e.index)

\* The lines of the frame of an event, with or without its event: line; the
\* data: line is the last line but one.
FrameLines(e, named) ==
    IF named
    THEN <<<<EventLine(e.type)>>, <<DataLine(JSONstringify(EventJson(e)))>>, << >>>>
    ELSE <<<<DataLine(JSONstringify(EventJson(e)))>>, << >>>>

\* The events of block k among evs.
OfBlock(evs, k) == {e \in evs : e.index = k}

\* The backend can send e after the events sent: a block is started once,
\* under an index no other block has, its deltas follow its start in order,
\* and nothing follows its stop.
CanSend(sent, e) ==
    LET mine == OfBlock(sent, e.index) IN
    IF e.type = "content_block_start" THEN mine = {}
    ELSE /\ \E s \in mine : s.type = "content_block_start"
         /\ ~\E s \in mine : s.type = "content_block_stop"
         /\ e.type = "content_block_delta" =>
              e.n = 1 + Cardinality({s \in mine : s.type = "content_block_delta"})

BlkInit ==
    /\ delivered = {}
    /\ forwarded = {}
    /\ emptyBlocks = {}
    /\ rwPhase = "stream"
    /\ rwChunk = << >> /\ rwResult = << >> /\ rwKept = << >>
    /\ rwBefore = {} /\ seenEmpty = {}

\* A chunk with the frame of one event arrives and is passed through
\* filterSseChunk with the Set of the stream.
DeliverEvent ==
    /\ rwPhase = "stream"
    /\ \E e \in BlockEvents, named \in BOOLEAN :
         /\ CanSend(delivered, e)
         /\ LET lines == FrameLines(e, named)
                r == filterSseChunk(Join(lines), emptyBlocks)
                dataPos == Len(lines) - 1
            IN /\ emptyBlocks' = r.emptyBlockIndices
               /\ forwarded' = forwarded \cup
                    (IF \E j \in 1 .. Len(r.kept) : r.kept[j] = dataPos THEN {e} ELSE {})
         /\ delivered' = delivered \cup {e}
    /\ UNCHANGED <<rwPhase, rwChunk, rwResult, rwKept, rwBefore, seenEmpty>>

\* A chunk with the frames of two events arrives, the first with its event:
\* line and the second without.
DeliverTwoEvents ==
    /\ rwPhase = "stream"
    /\ \E e1 \in BlockEvents, e2 \in BlockEvents :
         /\ CanSend(delivered, e1)
         /\ CanSend(delivered \cup {e1}, e2)
         /\ LET first == FrameLines(e1, TRUE)
                lines == first \o FrameLines(e2, FALSE)
                r == filterSseChunk(Join(lines), emptyBlocks)
                pos1 == Len(first) - 1
                pos2 == Len(lines) - 1
                IsKept(p) == \E j \in 1 .. Len(r.kept) : r.kept[j] = p
            IN /\ emptyBlocks' = r.emptyBlockIndices
               /\ forwarded' = forwarded
                    \cup (IF IsKept(pos1) THEN {e1} ELSE {})
                    \cup (IF IsKept(pos2) THEN {e2} ELSE {})
         /\ delivered' = delivered \cup {e1, e2}
    /\ UNCHANGED <<rwPhase, rwChunk, rwResult, rwKept, rwBefore, seenEmpty>>

InitBlocks == BlkInit /\ StreamIdle /\ RespIdle /\ ReqIdle /\ RouteIdle /\ EnIdle
    /\ AuthIdle /\ ToolIdle

NextBlocks ==
    \/ DeliverEvent
       /\ UNCHANGED <<streamVars, respVars, reqVars, routeVars, enVars, authVars, toolVars>>
    \/ DeliverTwoEvents
       /\ UNCHANGED <<streamVars, respVars, reqVars, routeVars, enVars, authVars, toolVars>>

SpecBlocks == InitBlocks /\ [][NextBlocks]_vars

\* C28: in a stream whose blocks have distinct indices and whose data: lines
\* arrive whole, the events forwarded for a block are all the events the
\* backend has sent for it when its start was forwarded, and none when its
\* start was suppressed.
C28_BlockForwardedWholeOrNot ==
    \A k \in BlockIndices :
        LET sent == OfBlock(delivered, k)
            kept == OfBlock(forwarded, k)
        IN  /\ kept \subseteq sent
            /\ (\E e \in kept : e.type = "content_block_start") => kept = sent
            /\ (~\E e \in kept : e.type = "content_block_start") => kept = {}

\* C28 witness: block 0 is an empty text block and block 1 a text block with
\* text; both were sent with a delta and a stop; nothing of block 0 and all of
\* block 1 was forwarded.
C28_Witness ==
    /\ [index |-> 0, type |-> "content_block_start", kind |-> "empty_text"] \in delivered
    /\ [index |-> 1, type |-> "content_block_start", kind |-> "text"] \in delivered
    /\ \A k \in {0, 1} :
         /\ [index |-> k, type |-> "content_block_delta", n |-> 1] \in delivered
         /\ [index |-> k, type |-> "content_block_stop"] \in delivered
    /\ OfBlock(forwarded, 0) = {}
    /\ OfBlock(forwarded, 1) = OfBlock(delivered, 1)

====
